---- MODULE Spec2Model ----
(***************************************************************************)
(* Request lifecycle of the Hook HTTP wrapper (src/src/index.tsx, the      *)
(* analytics variant, and the two earlier coreHooks of                     *)
(* src/unnamed/part_001): configuration store, logger resolution, the      *)
(* coreHook pipeline with its suspension points, the response decoder and  *)
(* the analytics accumulator.                                              *)
(*                                                                         *)
(* JavaScript objects are functions whose DOMAIN is the set of keys        *)
(* present.  Objects that the code shares by reference (the three nested   *)
(* containers of the analytics record) live in `heap` and are named by     *)
(* their address.  An optional value is a sequence of length 0 or 1.       *)
(***************************************************************************)
EXTENDS Integers, Sequences, FiniteSets, TLC

\* ------------------------------------------------------------------ bounds
MaxCalls == 2      \* facade calls made in one behaviour
MaxTime == 1       \* last reading of performance.now()
MaxWrites == 1     \* writes of a caller to objects getAnalytics returned

\* ------------------------------------------------------------- JS objects
EmptyObj == [k \in {} |-> 0]
Has(o, k) == k \in DOMAIN o
\* { ...a, ...b }
Spread(a, b) ==
  [k \in (DOMAIN a) \cup (DOMAIN b) |-> IF k \in DOMAIN b THEN b[k] ELSE a[k]]
\* o[k] = v
Put(o, k, v) == [x \in (DOMAIN o) \cup {k} |-> IF x = k THEN v ELSE o[x]]
\* o[k] || 0
GetOr0(o, k) == IF k \in DOMAIN o THEN o[k] ELSE 0
None == << >>
Some(x) == << x >>

RECURSIVE SumSeq(_)
SumSeq(s) == IF s = << >> THEN 0 ELSE Head(s) + SumSeq(Tail(s))

RECURSIVE SumVals(_)
SumVals(o) ==
  IF DOMAIN o = {} THEN 0
  ELSE LET k == CHOOSE x \in DOMAIN o : TRUE
       IN o[k] + SumVals([x \in (DOMAIN o) \ {k} |-> o[x]])

RECURSIVE Gcd(_, _)
Gcd(a, b) == IF b = 0 THEN a ELSE Gcd(b, a % b)
\* a / b of two non-negative numbers, b > 0, as a reduced fraction
Divide(a, b) == LET g == Gcd(a, b) IN [num |-> a \div g, den |-> b \div g]
Zero == [num |-> 0, den |-> 1]

\* ------------------------------------------------------------------ inputs
HookNames == {"onRequest", "onResponse", "onError"}
\* a logger with all three callbacks, and one without onError
LoggerA == [onRequest |-> "A", onResponse |-> "A", onError |-> "A"]
LoggerB == [onRequest |-> "B", onResponse |-> "B"]
LoggerPool == {LoggerA, LoggerB}

Verbs == {"get", "post", "put", "del", "patch", "head", "options"}
BodyVerbs == {"post", "put", "patch"}
DataPool == {"d1"}
OptionsPool == {EmptyObj, [logger |-> LoggerA], [logger |-> LoggerB]}
UrlOf(r) == << "url", r >>
\* global defaults handed to configureGlobal: two header maps with different
\* keys, and a top-level key
HdrAuth == ("Authorization" :> "Bearer token")
HdrCustom == ("Custom-Header" :> "CustomValue" @@ "Content-Type" :> "text/xml")
ConfigPool == { [headers |-> HdrAuth], [headers |-> HdrCustom], [credentials |-> "include"] }
\* per-request options: none; a top-level key and a header the global config may
\* have too; a Content-Type header and a body of the caller's own
HeaderOptionsPool ==
  { EmptyObj,
    [credentials |-> "omit", headers |-> ("Custom-Header" :> "Local")],
    [headers |-> ("Content-Type" :> "text/plain"), body |-> "raw"] }

\* a Content-Type value: its text and the recognised substrings it includes
CtJson == [text |-> "application/json", parts |-> {"application/json"}]
CtOther == [text |-> "unsupported/type", parts |-> {}]
StatusText(status) ==
  CASE status = 200 -> "OK"
    [] status = 404 -> "Not Found"
    [] status = 500 -> "Internal Server Error"
    [] OTHER -> ""
\* Response of the transport: ok is the status being in the success range
Response(status, ctype) ==
  [ status |-> status, ok |-> (status >= 200 /\ status <= 299),
    statusText |-> StatusText(status), ctype |-> ctype, body |-> "payload" ]
ResponsePool ==
  { Response(200, Some(CtJson)), Response(200, Some(CtOther)),
    Response(404, None), Response(500, None) }
TransportError == [kind |-> "transport", message |-> <<"Network Error">>]
OkJson == [kind |-> "response", response |-> Some(Response(200, Some(CtJson)))]
FetchOutcomes ==
  { [kind |-> "response", response |-> Some(resp)] : resp \in ResponsePool }
    \cup { [kind |-> "throw", response |-> None] }


\* ------------------------------------------------------------------- state
VARIABLES
  globalLogger,   \* let globalLogger
  globalConfig,   \* let globalConfig
  analytics,      \* const analytics: scalars, and the addresses of its containers
  heap,           \* the containers analytics and snapshots refer to
  req,            \* the facade calls: position in coreHook and what it has done
  now,            \* performance.now()
  snap,           \* the last object getAnalytics returned to the caller
  variant         \* which coreHook the process runs: "analytics" (index.tsx),
                  \* "plain", the coreHook with per-request loggers and no
                  \* analytics, or "basic", the one that does not await its hooks

vars == << globalLogger, globalConfig, analytics, heap, req, now, snap, variant >>

Calls == 1..MaxCalls
\* one container of each kind for analytics and one for a snapshot that still
\* refers to a container analytics has dropped
Addrs == {1, 2}

ZeroAnalytics ==
  [ totalRequests |-> 0, requestMethods |-> 1, averageResponseTime |-> Zero,
    successfulRequests |-> 0, failedRequests |-> 0, errorCodes |-> 1,
    responseTimes |-> 1 ]
EmptyHeap ==
  [ methods |-> [x \in Addrs |-> EmptyObj], codes |-> [x \in Addrs |-> EmptyObj],
    times |-> [x \in Addrs |-> << >>] ]

\* the values an analytics object (live or a snapshot) shows when read
View(a, h) ==
  [ totalRequests |-> a.totalRequests,
    requestMethods |-> h.methods[a.requestMethods],
    averageResponseTime |-> a.averageResponseTime,
    successfulRequests |-> a.successfulRequests,
    failedRequests |-> a.failedRequests,
    errorCodes |-> h.codes[a.errorCodes],
    responseTimes |-> h.times[a.responseTimes] ]

\* containers no object refers to any more are collected
Owners(a, s) == {a} \cup (IF s.held THEN {s.obj} ELSE {})
Collect(h, a, s) ==
  [ methods |-> [x \in Addrs |->
       IF \E o \in Owners(a, s) : o.requestMethods = x THEN h.methods[x] ELSE EmptyObj],
    codes |-> [x \in Addrs |->
       IF \E o \in Owners(a, s) : o.errorCodes = x THEN h.codes[x] ELSE EmptyObj],
    times |-> [x \in Addrs |->
       IF \E o \in Owners(a, s) : o.responseTimes = x THEN h.times[x] ELSE << >>] ]
\* address of a new container: one the held snapshot does not refer to
Fresh(used) == CHOOSE x \in Addrs : x \notin used /\ \A y \in Addrs \ used : x <= y

\* held: the caller has an object getAnalytics returned; taken: what it showed
\* when returned; written: the caller has assigned to it or to one of its parts;
\* writes: the number of such assignments to any object getAnalytics returned
NoSnap ==
  [ held |-> FALSE, obj |-> ZeroAnalytics, taken |-> View(ZeroAnalytics, EmptyHeap),
    written |-> FALSE, writes |-> 0 ]

\* -------------------------------------------------------------- analytics
\* a bug: redirection statuses are counted as successes
IsSuccessStatus_Below400(status) == status >= 200 /\ status < 400
\* status >= 200 && status < 300
IsSuccessStatus(status) == status >= 200 /\ status < 300

\* a bug: the count of a method is set to 1 instead of raised by 1
CountMethod_Overwrites(methods, method) == Put(methods, method, 1)
\* requestMethods[method] = (requestMethods[method] || 0) + 1
CountMethod(methods, method) == Put(methods, method, GetOr0(methods, method) + 1)
\* a bug: a failure is not counted in failedRequests
CountOutcome_DropsFailure(a, status) ==
  IF IsSuccessStatus(status) THEN [a EXCEPT !.successfulRequests = @ + 1] ELSE a
\* the success and failure counters of updateAnalytics
CountOutcome(a, status) ==
  IF IsSuccessStatus(status)
  THEN [a EXCEPT !.successfulRequests = @ + 1]
  ELSE [a EXCEPT !.failedRequests = @ + 1]
\* a bug: the count of a status is set to 1 instead of raised by 1
CountError_Overwrites(codes, status) ==
  IF IsSuccessStatus(status) THEN codes ELSE Put(codes, status, 1)
\* errorCodes[status] = (errorCodes[status] || 0) + 1, on a failure
CountError(codes, status) ==
  IF IsSuccessStatus(status) THEN codes
  ELSE Put(codes, status, GetOr0(codes, status) + 1)
\* a bug: the average is the last response time
Average_OfLast(times) == Divide(times[Len(times)], 1)
\* totalResponseTime / responseTimes.length
Average(times) == Divide(SumSeq(times), Len(times))

\* updateAnalytics(method, status, responseTime) on the state st = [a, h]
UpdateAnalytics(st, method, status, responseTime) ==
  LET a == st.a
      h == st.h
      times == Append(h.times[a.responseTimes], responseTime)
  IN [ a |-> [ CountOutcome(a, status) EXCEPT
                 !.totalRequests = @ + 1,
                 !.averageResponseTime = Average(times) ],
       h |-> [ h EXCEPT
                 !.methods[a.requestMethods] = CountMethod(@, method),
                 !.times[a.responseTimes] = times,
                 !.codes[a.errorCodes] = CountError(@, status) ] ]

\* getAnalytics(): { ...analytics }, a new object with the same scalars and the
\* same three containers
GetAnalyticsObj(a) == a

\* resetAnalytics(): the scalars are zeroed, the containers replaced by new ones
ResetObj(a, s) ==
  [ totalRequests |-> 0,
    requestMethods |-> Fresh(IF s.held THEN {s.obj.requestMethods} ELSE {}),
    averageResponseTime |-> Zero,
    successfulRequests |-> 0,
    failedRequests |-> 0,
    errorCodes |-> Fresh(IF s.held THEN {s.obj.errorCodes} ELSE {}),
    responseTimes |-> Fresh(IF s.held THEN {s.obj.responseTimes} ELSE {}) ]
\* a bug: resetAnalytics leaves the recorded response times in place
ResetHeap_KeepsTimes(h, a) ==
  [ h EXCEPT !.methods[a.requestMethods] = EmptyObj,
             !.codes[a.errorCodes] = EmptyObj ]
\* the new containers of resetAnalytics are empty
ResetHeap(h, a) ==
  [ h EXCEPT !.methods[a.requestMethods] = EmptyObj,
             !.codes[a.errorCodes] = EmptyObj,
             !.times[a.responseTimes] = << >> ]

\* ------------------------------------------------------------------ facade
HeadersOf(o) == IF Has(o, "headers") THEN o.headers ELSE EmptyObj
JsonStringify(data) == [enc |-> "json", of |-> data]
JsonHeader == ("Content-Type" :> "application/json")
VerbMethod(verb) ==
  CASE verb = "get" -> "GET"
    [] verb = "post" -> "POST"
    [] verb = "put" -> "PUT"
    [] verb = "del" -> "DELETE"
    [] verb = "patch" -> "PATCH"
    [] verb = "head" -> "HEAD"
    [] verb = "options" -> "OPTIONS"
\* a bug: the caller's options are spread after the method of the shortcut
FacadeOptions_MethodFirst(verb, data, options) ==
  IF verb \in BodyVerbs
  THEN Spread([ method |-> VerbMethod(verb), body |-> JsonStringify(data),
                headers |-> Spread(JsonHeader, HeadersOf(options)) ],
              [k \in (DOMAIN options) \ {"headers"} |-> options[k]])
  ELSE Spread([method |-> VerbMethod(verb)], options)
\* a bug: the Content-Type of the shortcut is laid over the caller's headers
FacadeOptions_JsonHeaderLast(verb, data, options) ==
  IF verb \in BodyVerbs
  THEN Spread(options,
         [ method |-> VerbMethod(verb), body |-> JsonStringify(data),
           headers |-> Spread(HeadersOf(options), JsonHeader) ])
  ELSE Spread(options, [method |-> VerbMethod(verb)])
\* the options object a method shortcut hands to coreHook
FacadeOptions(verb, data, options) ==
  IF verb \in BodyVerbs
  THEN Spread(options,
         [ method |-> VerbMethod(verb), body |-> JsonStringify(data),
           headers |-> Spread(JsonHeader, HeadersOf(options)) ])
  ELSE Spread(options, [method |-> VerbMethod(verb)])

\* ---------------------------------------------------------------- coreHook
\* a bug: the per-request logger is laid over the global one, hook by hook
ResolveLogger_Merges(options, gl) ==
  IF Has(options, "logger") THEN Spread(gl, options.logger) ELSE gl
\* options.logger || globalLogger
ResolveLogger(options, gl) == IF Has(options, "logger") THEN options.logger ELSE gl
\* a bug: every observation is counted under GET
ResolveMethod_AlwaysGet(options) == "GET"
\* options.method || "GET"
ResolveMethod(options) ==
  IF Has(options, "method") /\ options.method # "" THEN options.method ELSE "GET"
\* a bug: the global headers are laid over the per-request headers
MergedOptions_GlobalHeadersWin(gc, options) ==
  Spread(Spread(gc, options),
         [headers |-> Spread(HeadersOf(options), HeadersOf(gc))])
\* a bug: the headers of the per-request options replace the global headers
MergedOptions_ShallowHeaders(gc, options) == Spread(gc, options)
\* { ...globalConfig, ...options, headers: { ...globalConfig.headers, ...options.headers } }
MergedOptions(gc, options) ==
  Spread(Spread(gc, options),
         [headers |-> Spread(HeadersOf(gc), HeadersOf(options))])

\* a bug: every hook call reads the global logger anew
ActiveLogger_ReadsGlobal(rq, gl) == IF Has(rq.options, "logger") THEN rq.logger ELSE gl
\* the logger whose hooks a call in flight invokes
ActiveLogger(rq, gl) == rq.logger
\* logger.hook?.(...): the callback runs when the logger has it
Invoke(lg, ev) == IF Has(lg, ev.ev) THEN << [ev EXCEPT !.cb = lg[ev.ev]] >> ELSE << >>
\* history kept at a hook call of the call rq: with a per-request logger, the
\* global logger has the hook and the per-request logger lacks it; without one,
\* the global logger is no longer the one the call started with
NoteHook(rq, gl, hook) ==
  \/ rq.bypassed
  \/ IF Has(rq.options, "logger")
     THEN Has(gl, hook) /\ ~ Has(rq.logger, hook)
     ELSE gl # rq.logger
\* how the awaited hook call can end
HookOutcomes(lg, hook) == IF Has(lg, hook) THEN {"ok", "throw"} ELSE {"ok"}
HookError(hook) == [kind |-> "hook", hook |-> hook]
\* a bug: the message of a declared failure leaves out the status text
StatusError_DropsStatusText(resp) ==
  [ kind |-> "status",
    message |-> << "[Hook] Request failed with status ", resp.status, ": ", "" >> ]
\* new Error(`[Hook] Request failed with status ${status}: ${statusText}`)
StatusError(resp) ==
  [ kind |-> "status",
    message |-> << "[Hook] Request failed with status ", resp.status, ": ", resp.statusText >> ]
UnsupportedError(ctype) ==
  [ kind |-> "unsupported",
    message |-> << "[Hook] Unsupported response content type: ",
                   IF ctype = None THEN "null" ELSE ctype[1].text >> ]
BodyError == [kind |-> "body"]

\* a bug: a response without Content-Type passes every test of the decoder
Includes_NullMatches(ctype, s) == ctype = None \/ s \in ctype[1].parts
\* contentType?.includes(s)
Includes(ctype, s) == ctype # None /\ s \in ctype[1].parts
\* a bug: the text/ branch is tested before the application/json branch
ParseStrategy_TextFirst(resp) ==
  IF Includes(resp.ctype, "text/") THEN "text"
  ELSE IF Includes(resp.ctype, "application/json") THEN "json"
  ELSE IF Includes(resp.ctype, "application/octet-stream") THEN "arrayBuffer"
  ELSE IF Includes(resp.ctype, "application/blob") THEN "blob"
  ELSE "unsupported"
\* parseResponse: the body accessor chosen, or "unsupported"
ParseStrategy(resp) ==
  IF Includes(resp.ctype, "application/json") THEN "json"
  ELSE IF Includes(resp.ctype, "text/") THEN "text"
  ELSE IF Includes(resp.ctype, "application/octet-stream") THEN "arrayBuffer"
  ELSE IF Includes(resp.ctype, "application/blob") THEN "blob"
  ELSE "unsupported"
\* a bug: an unrecognised content type decodes to undefined instead of throwing
ParseOutcomes_Lenient(resp) ==
  IF ParseStrategy(resp) = "unsupported" THEN {"ok"} ELSE {"ok", "throw"}
\* how parseResponse can end: the body accessor resolves or rejects, or no
\* branch matches and it throws
ParseOutcomes(resp) ==
  IF ParseStrategy(resp) = "unsupported" THEN {"unsupported"} ELSE {"ok", "throw"}
Decoded(resp) == [how |-> ParseStrategy(resp), body |-> resp.body]

IdleReq ==
  [ pc |-> "idle", verb |-> "", url |-> None, options |-> EmptyObj,
    logger |-> EmptyObj, method |-> "",
    merged |-> EmptyObj, startTime |-> 0, fetched |-> None, err |-> None,
    result |-> None, trace |-> << >>,
    threw |-> {},        \* history: the hooks of this call that failed
    bypassed |-> FALSE ] \* history: a hook call of this call was reached while the
                         \* global logger would have acted otherwise

\* a bug: a rejected dispatch is sent again, once, before the catch block gives up
Catch_Retries(rq, gl, e) ==
  IF e.kind = "transport" /\ Cardinality({i \in 1..Len(rq.trace) : rq.trace[i].ev = "fetch"}) = 1
  THEN [ rq EXCEPT !.pc = "fetch", !.fetched = << >>,
                   !.trace = Append(@, [ev |-> "fetch", url |-> rq.url, opts |-> rq.merged]) ]
  ELSE [ rq EXCEPT
           !.pc = "onError",
           !.err = Some(e),
           !.bypassed = NoteHook(rq, gl, "onError"),
           !.trace = @ \o Invoke(ActiveLogger(rq, gl),
                                 [ev |-> "onError", cb |-> "", url |-> rq.url, err |-> e]) ]
\* a bug: the catch block calls the onError hook twice
Catch_CallsTwice(rq, gl, e) ==
  [ rq EXCEPT
      !.pc = "onError",
      !.err = Some(e),
      !.bypassed = NoteHook(rq, gl, "onError"),
      !.trace = @ \o Invoke(ActiveLogger(rq, gl),
                            [ev |-> "onError", cb |-> "", url |-> rq.url, err |-> e])
                  \o Invoke(ActiveLogger(rq, gl),
                            [ev |-> "onError", cb |-> "", url |-> rq.url, err |-> e]) ]
\* a bug: the catch block rethrows without calling the onError hook
Catch_SkipsHook(rq, gl, e) ==
  [rq EXCEPT !.pc = "onError", !.err = Some(e), !.bypassed = NoteHook(rq, gl, "onError")]
\* catch (error): await localLogger.onError?.(url, error)
Catch(rq, gl, e) ==
  [ rq EXCEPT
      !.pc = "onError",
      !.err = Some(e),
      !.bypassed = NoteHook(rq, gl, "onError"),
      !.trace = @ \o Invoke(ActiveLogger(rq, gl),
                            [ev |-> "onError", cb |-> "", url |-> rq.url, err |-> e]) ]
\* a bug: the onResponse hook is never called
OnResponseCalls_Skipped(lg, rq, resp) == << >>
\* a bug: the onResponse hook is called before the ok check
OnResponseCalls_BeforeOkCheck(lg, rq, resp) ==
  Invoke(lg, [ev |-> "onResponse", cb |-> "", url |-> rq.url, response |-> resp])
\* await localLogger.onResponse?.(url, response), which only a response that
\* passed the ok check reaches
OnResponseCalls(lg, rq, resp) ==
  IF resp.ok
  THEN Invoke(lg, [ev |-> "onResponse", cb |-> "", url |-> rq.url, response |-> resp])
  ELSE << >>
\* a bug: the promise of the call is left pending
Settle_LeavesPending(rq, state, value, error) == rq
\* the promise coreHook returned resolves or rejects: return / throw
Settle(rq, state, value, error) ==
  [ rq EXCEPT !.pc = "done",
              !.result = Some([state |-> state, value |-> value, error |-> error]) ]

\* a bug: updateAnalytics is called on the success branch only
AnalyticsAfterFetch_SkipsFailure(st, method, out, responseTime) ==
  IF out.kind = "response" /\ out.response[1].ok
  THEN UpdateAnalytics(st, method, out.response[1].status, responseTime)
  ELSE st
\* a bug: the catch block records a rejected fetch as a failure of status 0
AnalyticsAfterFetch_CountsThrow(st, method, out, responseTime) ==
  IF out.kind = "response"
  THEN UpdateAnalytics(st, method, out.response[1].status, responseTime)
  ELSE UpdateAnalytics(st, method, 0, responseTime)
\* a bug: a response the decoder will reject is not recorded
AnalyticsAfterFetch_SkipsUndecodable(st, method, out, responseTime) ==
  IF out.kind = "response"
       /\ ~ (out.response[1].ok /\ ParseStrategy(out.response[1]) = "unsupported")
  THEN UpdateAnalytics(st, method, out.response[1].status, responseTime)
  ELSE st
\* the analytics after `await fetch` has ended with `out`: both branches of the ok
\* check call updateAnalytics, a rejected fetch reaches neither
AnalyticsAfterFetch(st, method, out, responseTime) ==
  IF out.kind = "response"
  THEN UpdateAnalytics(st, method, out.response[1].status, responseTime)
  ELSE st

\* ----------------------------------------------------------------- actions
Variants == {"analytics", "plain"}
\* the module state after loading
Loaded ==
  /\ globalLogger = EmptyObj
  /\ globalConfig = EmptyObj
  /\ analytics = ZeroAnalytics
  /\ heap = EmptyHeap
  /\ req = [r \in Calls |-> IdleReq]
  /\ now = 0
  /\ snap = NoSnap
Init == Loaded /\ variant = "analytics"
InitAnyVariant == Loaded /\ variant \in Variants

\* a bug: the hooks of the new logger are laid over those of the old one
ConfigureLogger_Merges(lg) ==
  /\ globalLogger' = Spread(globalLogger, lg)
  /\ UNCHANGED << globalConfig, analytics, heap, req, now, snap, variant >>
\* configureLogger(customLogger)
ConfigureLogger(lg) ==
  /\ globalLogger' = lg
  /\ UNCHANGED << globalConfig, analytics, heap, req, now, snap, variant >>

\* configureGlobal(config)
ConfigureGlobal(config) ==
  /\ globalConfig' = Spread(globalConfig, config)
  /\ UNCHANGED << globalLogger, analytics, heap, req, now, snap, variant >>

\* resetAnalytics()
ResetAnalytics ==
  /\ analytics' = ResetObj(analytics, snap)
  /\ heap' = Collect(ResetHeap(heap, analytics'), analytics', snap)
  /\ UNCHANGED << globalLogger, globalConfig, req, now, snap, variant >>

\* time passes
Tick ==
  /\ now < MaxTime
  /\ now' = now + 1
  /\ UNCHANGED << globalLogger, globalConfig, analytics, heap, req, snap, variant >>

\* a bug: the onRequest hook is called but not awaited, the dispatch starts at once
Call_DoesNotAwait(verb, data, opts) ==
  \E r \in Calls :
    /\ variant \in Variants
    /\ req[r].pc = "idle"
    /\ \A q \in Calls : q < r => req[q].pc # "idle"
    /\ LET options == FacadeOptions(verb, data, opts)
           rq == [ IdleReq EXCEPT
                     !.verb = verb,
                     !.url = Some(UrlOf(r)),
                     !.options = opts,
                     !.logger = ResolveLogger(options, globalLogger),
                     !.method = IF variant = "analytics" THEN ResolveMethod(options)
                                ELSE "",
                     !.merged = MergedOptions(globalConfig, options),
                     !.startTime = IF variant = "analytics" THEN now ELSE 0 ]
       IN req' = [ req EXCEPT ![r] =
                     [ rq EXCEPT
                         !.pc = "fetch",
                         !.bypassed = NoteHook(rq, globalLogger, "onRequest"),
                         !.trace = Invoke(ActiveLogger(rq, globalLogger),
                                          [ ev |-> "onRequest", cb |-> "",
                                            url |-> rq.url, opts |-> rq.merged ])
                                   \o << [ ev |-> "fetch", url |-> rq.url,
                                           opts |-> rq.merged ] >> ] ]
    /\ UNCHANGED << globalLogger, globalConfig, analytics, heap, now, snap, variant >>
\* hook.<verb>(url, data, options): the shortcut and coreHook down to its first
\* await, the onRequest hook
Call(verb, data, opts) ==
  \E r \in Calls :
    /\ variant \in Variants
    /\ req[r].pc = "idle"
    /\ \A q \in Calls : q < r => req[q].pc # "idle"
    /\ LET options == FacadeOptions(verb, data, opts)
           rq == [ IdleReq EXCEPT
                     !.verb = verb,
                     !.url = Some(UrlOf(r)),
                     !.options = opts,
                     !.logger = ResolveLogger(options, globalLogger),
                     !.method = IF variant = "analytics" THEN ResolveMethod(options)
                                ELSE "",
                     !.merged = MergedOptions(globalConfig, options),
                     !.startTime = IF variant = "analytics" THEN now ELSE 0 ]
       IN req' = [ req EXCEPT ![r] =
                     [ rq EXCEPT
                         !.pc = "onRequest",
                         !.bypassed = NoteHook(rq, globalLogger, "onRequest"),
                         !.trace = Invoke(ActiveLogger(rq, globalLogger),
                                          [ ev |-> "onRequest", cb |-> "",
                                            url |-> rq.url, opts |-> rq.merged ]) ] ]
    /\ UNCHANGED << globalLogger, globalConfig, analytics, heap, now, snap, variant >>

\* a bug: a failure of the onRequest hook is swallowed and the dispatch is made
ResumeOnRequest_DispatchesAnyway(r, out) ==
  /\ req[r].pc = "onRequest"
  /\ out \in HookOutcomes(ActiveLogger(req[r], globalLogger), "onRequest")
  /\ req' = [ req EXCEPT ![r] =
                [ @ EXCEPT !.pc = "fetch",
                           !.threw = IF out = "ok" THEN @ ELSE @ \cup {"onRequest"},
                           !.trace = Append(@, [ ev |-> "fetch", url |-> req[r].url,
                                                 opts |-> req[r].merged ]) ] ]
  /\ UNCHANGED << globalLogger, globalConfig, analytics, heap, now, snap, variant >>
\* a bug: the dispatch lays the global config of the moment over the options
\* merged at the start of the call
ResumeOnRequest_MergesAgain(r, out) ==
  /\ req[r].pc = "onRequest"
  /\ out \in HookOutcomes(ActiveLogger(req[r], globalLogger), "onRequest")
  /\ req' = [ req EXCEPT ![r] =
                IF out = "ok"
                THEN [ @ EXCEPT !.pc = "fetch",
                                !.trace = Append(@, [ ev |-> "fetch", url |-> req[r].url,
                                                      opts |-> Spread(req[r].merged,
                                                                      globalConfig) ]) ]
                ELSE Catch([@ EXCEPT !.threw = @ \cup {"onRequest"}], globalLogger,
                           HookError("onRequest")) ]
  /\ UNCHANGED << globalLogger, globalConfig, analytics, heap, now, snap, variant >>
\* the onRequest hook has ended: fetch(url, mergedOptions), or the catch block
ResumeOnRequest(r, out) ==
  /\ req[r].pc = "onRequest"
  /\ out \in HookOutcomes(ActiveLogger(req[r], globalLogger), "onRequest")
  /\ req' = [ req EXCEPT ![r] =
                IF out = "ok"
                THEN [ @ EXCEPT !.pc = "fetch",
                                !.trace = Append(@, [ ev |-> "fetch", url |-> req[r].url,
                                                      opts |-> req[r].merged ]) ]
                ELSE Catch([@ EXCEPT !.threw = @ \cup {"onRequest"}], globalLogger,
                           HookError("onRequest")) ]
  /\ UNCHANGED << globalLogger, globalConfig, analytics, heap, now, snap, variant >>

\* fetch has ended: timing, the ok check, updateAnalytics, the onResponse hook
ResumeFetch(r, out) ==
  /\ variant = "analytics"
  /\ req[r].pc = "fetch"
  /\ LET rq == [req[r] EXCEPT !.fetched = Some(out)]
         st == AnalyticsAfterFetch([a |-> analytics, h |-> heap], rq.method, out,
                                   now - rq.startTime)
     IN /\ analytics' = st.a
        /\ heap' = st.h
        /\ req' = [ req EXCEPT ![r] =
                      IF out.kind = "throw"
                      THEN Catch(rq, globalLogger, TransportError)
                      ELSE IF ~ out.response[1].ok
                      THEN Catch([ rq EXCEPT !.trace = @ \o
                                     OnResponseCalls(ActiveLogger(rq, globalLogger), rq,
                                                     out.response[1]) ],
                                 globalLogger, StatusError(out.response[1]))
                      ELSE [ rq EXCEPT
                               !.pc = "onResponse",
                               !.bypassed = NoteHook(rq, globalLogger, "onResponse"),
                               !.trace = @ \o
                                 OnResponseCalls(ActiveLogger(rq, globalLogger), rq,
                                                 out.response[1]) ] ]
  /\ UNCHANGED << globalLogger, globalConfig, now, snap, variant >>

\* the onResponse hook has ended: parseResponse(response), or the catch block
ResumeOnResponse(r, out) ==
  /\ variant = "analytics"
  /\ req[r].pc = "onResponse"
  /\ out \in HookOutcomes(ActiveLogger(req[r], globalLogger), "onResponse")
  /\ LET resp == req[r].fetched[1].response[1]
     IN req' = [ req EXCEPT ![r] =
                   IF out = "throw"
                   THEN Catch([@ EXCEPT !.threw = @ \cup {"onResponse"}], globalLogger,
                              HookError("onResponse"))
                   ELSE [ @ EXCEPT
                            !.pc = "parse",
                            !.trace = IF ParseStrategy(resp) = "unsupported" THEN @
                                      ELSE Append(@, [ ev |-> "body",
                                                       how |-> ParseStrategy(resp) ]) ] ]
  /\ UNCHANGED << globalLogger, globalConfig, analytics, heap, now, snap, variant >>

\* plain coreHook, fetch has ended: the onResponse hook, before the ok check
PlainResumeFetch(r, out) ==
  /\ variant = "plain"
  /\ req[r].pc = "fetch"
  /\ LET rq == [req[r] EXCEPT !.fetched = Some(out)]
     IN req' = [ req EXCEPT ![r] =
                   IF out.kind = "throw"
                   THEN Catch(rq, globalLogger, TransportError)
                   ELSE [ rq EXCEPT
                            !.pc = "onResponse",
                            !.bypassed = NoteHook(rq, globalLogger, "onResponse"),
                            !.trace = @ \o Invoke(ActiveLogger(rq, globalLogger),
                                        [ ev |-> "onResponse", cb |-> "", url |-> rq.url,
                                          response |-> out.response[1] ]) ] ]
  /\ UNCHANGED << globalLogger, globalConfig, analytics, heap, now, snap, variant >>

\* plain coreHook, the onResponse hook has ended: the ok check, then
\* parseResponse(response), or the catch block
PlainResumeOnResponse(r, out) ==
  /\ variant = "plain"
  /\ req[r].pc = "onResponse"
  /\ out \in HookOutcomes(ActiveLogger(req[r], globalLogger), "onResponse")
  /\ LET resp == req[r].fetched[1].response[1]
     IN req' = [ req EXCEPT ![r] =
                   IF out = "throw"
                   THEN Catch([@ EXCEPT !.threw = @ \cup {"onResponse"}], globalLogger,
                              HookError("onResponse"))
                   ELSE IF ~ resp.ok
                   THEN Catch(@, globalLogger, StatusError(resp))
                   ELSE [ @ EXCEPT
                            !.pc = "parse",
                            !.trace = IF ParseStrategy(resp) = "unsupported" THEN @
                                      ELSE Append(@, [ ev |-> "body",
                                                       how |-> ParseStrategy(resp) ]) ] ]
  /\ UNCHANGED << globalLogger, globalConfig, analytics, heap, now, snap, variant >>

\* parseResponse has ended: the call resolves, or the catch block
ResumeParse(r, out) ==
  /\ variant \in Variants
  /\ req[r].pc = "parse"
  /\ LET resp == req[r].fetched[1].response[1]
     IN /\ out \in ParseOutcomes(resp)
        /\ req' = [ req EXCEPT ![r] =
                      CASE out = "ok" -> Settle(@, "resolved", Some(Decoded(resp)), None)
                        [] out = "throw" -> Catch(@, globalLogger, BodyError)
                        [] out = "unsupported" ->
                             Catch(@, globalLogger, UnsupportedError(resp.ctype)) ]
  /\ UNCHANGED << globalLogger, globalConfig, analytics, heap, now, snap, variant >>

\* the onError hook has ended: throw error
ResumeOnError(r, out) ==
  /\ req[r].pc = "onError"
  /\ out \in HookOutcomes(ActiveLogger(req[r], globalLogger), "onError")
  /\ req' = [ req EXCEPT ![r] =
                IF out = "ok"
                THEN Settle(@, "rejected", None, @.err)
                ELSE Settle([@ EXCEPT !.threw = @ \cup {"onError"}], "rejected", None,
                            Some(HookError("onError"))) ]
  /\ UNCHANGED << globalLogger, globalConfig, analytics, heap, now, snap, variant >>

\* The first coreHook of src/unnamed/part_001 (lines 53-84): it has no
\* per-request logger and calls the hooks of the module variable `logger`, read
\* anew at each hook, without awaiting them; it suspends at the dispatch and at
\* the body accessor only.  A hook call ends normally or throws.

\* a bug: the onResponse hook is called after the ok check
BasicOnResponseCalls_AfterOkCheck(gl, rq, resp) ==
  IF resp.ok
  THEN Invoke(gl, [ev |-> "onResponse", cb |-> "", url |-> rq.url, response |-> resp])
  ELSE << >>
\* logger.onResponse?.(url, response), before the ok check
BasicOnResponseCalls(gl, rq, resp) ==
  Invoke(gl, [ev |-> "onResponse", cb |-> "", url |-> rq.url, response |-> resp])
\* catch (error): logger.onError?.(url, error); throw error
BasicCatch(rq, gl, e, out) ==
  LET called == [ rq EXCEPT
                    !.err = Some(e),
                    !.trace = @ \o Invoke(gl, [ ev |-> "onError", cb |-> "",
                                                url |-> rq.url, err |-> e ]) ]
  IN IF out = "throw"
     THEN Settle([called EXCEPT !.threw = @ \cup {"onError"}], "rejected", None,
                 Some(HookError("onError")))
     ELSE Settle(called, "rejected", None, Some(e))
\* how the lenient parseResponse can end: the body accessor resolves or
\* rejects, or no branch matches and it returns undefined
BasicParseOutcomes(resp) ==
  IF ParseStrategy(resp) = "unsupported" THEN {"ok"} ELSE {"ok", "throw"}
Undefined == [how |-> "undefined"]
BasicDecoded(resp) ==
  IF ParseStrategy(resp) = "unsupported" THEN Undefined ELSE Decoded(resp)

\* hook.<verb>(url, data, options): the shortcut and coreHook down to its first
\* await, the dispatch
BasicCall(verb, data, opts) ==
  \E r \in Calls :
    /\ variant = "basic"
    /\ req[r].pc = "idle"
    /\ \A q \in Calls : q < r => req[q].pc # "idle"
    /\ \E hk \in HookOutcomes(globalLogger, "onRequest"),
          oe \in HookOutcomes(globalLogger, "onError") :
         LET options == FacadeOptions(verb, data, opts)
             rq == [ IdleReq EXCEPT
                       !.verb = verb,
                       !.url = Some(UrlOf(r)),
                       !.options = opts,
                       !.merged = MergedOptions(globalConfig, options) ]
             called == [ rq EXCEPT
                           !.trace = Invoke(globalLogger,
                                            [ ev |-> "onRequest", cb |-> "",
                                              url |-> rq.url, opts |-> rq.merged ]) ]
         IN req' = [ req EXCEPT ![r] =
                       IF hk = "ok"
                       THEN [ called EXCEPT
                                !.pc = "fetch",
                                !.trace = Append(@, [ ev |-> "fetch", url |-> rq.url,
                                                      opts |-> rq.merged ]) ]
                       ELSE BasicCatch([called EXCEPT !.threw = @ \cup {"onRequest"}],
                                       globalLogger, HookError("onRequest"), oe) ]
    /\ UNCHANGED << globalLogger, globalConfig, analytics, heap, now, snap, variant >>

\* fetch has ended: the onResponse hook, the ok check, parseResponse down to its
\* body accessor, or the catch block
BasicResumeFetch(r, out) ==
  /\ variant = "basic"
  /\ req[r].pc = "fetch"
  /\ \E hk \in HookOutcomes(globalLogger, "onResponse"),
        oe \in HookOutcomes(globalLogger, "onError") :
       LET rq == [req[r] EXCEPT !.fetched = Some(out)]
       IN req' = [ req EXCEPT ![r] =
                     IF out.kind = "throw"
                     THEN BasicCatch(rq, globalLogger, TransportError, oe)
                     ELSE LET resp == out.response[1]
                              called == [ rq EXCEPT !.trace = @ \o
                                            BasicOnResponseCalls(globalLogger, rq, resp) ]
                          IN IF hk = "throw"
                             THEN BasicCatch([called EXCEPT !.threw = @ \cup {"onResponse"}],
                                             globalLogger, HookError("onResponse"), oe)
                             ELSE IF ~ resp.ok
                             THEN BasicCatch(called, globalLogger, StatusError(resp), oe)
                             ELSE [ called EXCEPT
                                      !.pc = "parse",
                                      !.trace =
                                        IF ParseStrategy(resp) = "unsupported" THEN @
                                        ELSE Append(@, [ ev |-> "body",
                                                         how |-> ParseStrategy(resp) ]) ] ]
  /\ UNCHANGED << globalLogger, globalConfig, analytics, heap, now, snap, variant >>

\* parseResponse has ended: the call resolves, or the catch block
BasicResumeParse(r, out) ==
  /\ variant = "basic"
  /\ req[r].pc = "parse"
  /\ \E oe \in HookOutcomes(globalLogger, "onError") :
       LET resp == req[r].fetched[1].response[1]
       IN /\ out \in BasicParseOutcomes(resp)
          /\ req' = [ req EXCEPT ![r] =
                        IF out = "ok"
                        THEN Settle(@, "resolved", Some(BasicDecoded(resp)), None)
                        ELSE BasicCatch(@, globalLogger, BodyError, oe) ]
  /\ UNCHANGED << globalLogger, globalConfig, analytics, heap, now, snap, variant >>

\* getAnalytics(), the caller keeping the object returned
GetAnalytics ==
  /\ snap' = [ held |-> TRUE, obj |-> GetAnalyticsObj(analytics),
               taken |-> View(analytics, heap), written |-> FALSE,
               writes |-> snap.writes ]
  /\ heap' = Collect(heap, analytics, snap')
  /\ UNCHANGED << globalLogger, globalConfig, analytics, req, now, variant >>

\* the caller writes to the object getAnalytics returned: to a scalar field of
\* it, or into one of the three containers it refers to
WriteSnapshot(field) ==
  /\ snap.held /\ snap.writes < MaxWrites
  /\ snap' = [ snap EXCEPT
                !.written = TRUE,
                !.writes = @ + 1,
                !.obj = IF field = "totalRequests"
                        THEN [@ EXCEPT !.totalRequests = @ + 1] ELSE @ ]
  /\ heap' = CASE field = "totalRequests" -> heap
               [] field = "requestMethods" ->
                    [heap EXCEPT !.methods[snap.obj.requestMethods] = CountMethod(@, "GET")]
               [] field = "errorCodes" ->
                    [heap EXCEPT !.codes[snap.obj.errorCodes] = CountError(@, 404)]
               [] field = "responseTimes" ->
                    [heap EXCEPT !.times[snap.obj.responseTimes] = Append(@, 0)]
  /\ UNCHANGED << globalLogger, globalConfig, analytics, req, now, variant >>

\* coreHook resuming after one of its awaits
Pipeline ==
  \/ \E r \in Calls : ResumeOnRequest(r, "ok")
  \/ \E r \in Calls : ResumeOnRequest(r, "throw")
  \/ \E r \in Calls, out \in FetchOutcomes : ResumeFetch(r, out)
  \/ \E r \in Calls : ResumeOnResponse(r, "ok")
  \/ \E r \in Calls : ResumeOnResponse(r, "throw")
  \/ \E r \in Calls, out \in {"ok", "throw", "unsupported"} : ResumeParse(r, out)
  \/ \E r \in Calls : ResumeOnError(r, "ok")
  \/ \E r \in Calls : ResumeOnError(r, "throw")

\* Requests with every verb, resets and the clock; no logger is configured
NextAnalytics ==
  \/ ResetAnalytics
  \/ Tick
  \/ \E verb \in Verbs, data \in DataPool : Call(verb, data, EmptyObj)
  \/ \E r \in Calls : ResumeOnRequest(r, "ok")
  \/ \E r \in Calls, out \in FetchOutcomes : ResumeFetch(r, out)
  \/ \E r \in Calls : ResumeOnResponse(r, "ok")
  \/ \E r \in Calls, out \in {"ok", "throw", "unsupported"} : ResumeParse(r, out)
  \/ \E r \in Calls : ResumeOnError(r, "ok")

SpecAnalytics == Init /\ [][NextAnalytics]_vars

\* Requests with global and per-request loggers, hooks that may fail, and
\* configureLogger between any two steps, under either coreHook
NextLoggers ==
  \/ \E lg \in LoggerPool : ConfigureLogger(lg)
  \/ \E data \in DataPool, opts \in OptionsPool : Call("get", data, opts)
  \/ Pipeline
  \/ \E r \in Calls, out \in FetchOutcomes : PlainResumeFetch(r, out)
  \/ \E r \in Calls : PlainResumeOnResponse(r, "ok")
  \/ \E r \in Calls : PlainResumeOnResponse(r, "throw")

\* either coreHook
SpecLoggers == InitAnyVariant /\ [][NextLoggers]_vars

\* Requests and resets, with a caller that keeps what getAnalytics returned and
\* may write to it
NextCaller ==
  \/ ResetAnalytics
  \/ GetAnalytics
  \/ \E field \in {"totalRequests", "requestMethods", "errorCodes", "responseTimes"} :
       WriteSnapshot(field)
  \/ \E data \in DataPool : Call("get", data, EmptyObj)
  \/ \E r \in Calls : ResumeOnRequest(r, "ok")
  \/ \E r \in Calls, out \in FetchOutcomes : ResumeFetch(r, out)
  \/ \E r \in Calls : ResumeOnResponse(r, "ok")
  \/ \E r \in Calls, out \in {"ok", "throw", "unsupported"} : ResumeParse(r, out)
  \/ \E r \in Calls : ResumeOnError(r, "ok")

SpecCaller == Init /\ [][NextCaller]_vars

\* Requests with and without a body under a global config that configureGlobal
\* changes between any two steps
NextConfig ==
  \/ \E config \in ConfigPool : ConfigureGlobal(config)
  \/ \E verb \in {"get"} \cup BodyVerbs, data \in DataPool, opts \in HeaderOptionsPool :
       Call(verb, data, opts)
  \/ \E r \in Calls : ResumeOnRequest(r, "ok")
  \/ \E r \in Calls : ResumeFetch(r, [kind |-> "response",
                                       response |-> Some(Response(200, Some(CtJson)))])
  \/ \E r \in Calls : ResumeOnResponse(r, "ok")
  \/ \E r \in Calls : ResumeParse(r, "ok")

SpecConfig == Init /\ [][NextConfig]_vars


\* Content-Type values of each recognised kind, and values that include two of
\* the recognised substrings
CtText == [text |-> "text/plain", parts |-> {"text/"}]
CtBinary == [text |-> "application/octet-stream", parts |-> {"application/octet-stream"}]
CtBlob == [text |-> "application/blob", parts |-> {"application/blob"}]
CtJsonText ==
  [text |-> "application/json; profile=text/x", parts |-> {"application/json", "text/"}]
CtTextBinary ==
  [ text |-> "text/plain, application/octet-stream",
    parts |-> {"text/", "application/octet-stream"} ]
CtBinaryBlob ==
  [ text |-> "application/octet-stream, application/blob",
    parts |-> {"application/octet-stream", "application/blob"} ]
DecoderTypes ==
  { Some(ct) : ct \in {CtJson, CtText, CtBinary, CtBlob, CtJsonText, CtTextBinary,
                       CtBinaryBlob, CtOther} } \cup {None}
DecoderOutcomes ==
  { [kind |-> "response", response |-> Some(Response(200, ct))] : ct \in DecoderTypes }

\* Requests whose ok responses carry every kind of Content-Type, or none
NextDecoder ==
  \/ \E data \in DataPool : Call("get", data, EmptyObj)
  \/ \E r \in Calls : ResumeOnRequest(r, "ok")
  \/ \E r \in Calls, out \in DecoderOutcomes : ResumeFetch(r, out)
  \/ \E r \in Calls : ResumeOnResponse(r, "ok")
  \/ \E r \in Calls, out \in {"ok", "throw", "unsupported"} : ResumeParse(r, out)
  \/ \E r \in Calls : ResumeOnError(r, "ok")

SpecDecoder == Init /\ [][NextDecoder]_vars

\* Requests under a global logger while the clock advances, also while a hook
\* is pending
NextTiming ==
  \/ ConfigureLogger(LoggerA)
  \/ Tick
  \/ \E data \in DataPool : Call("get", data, EmptyObj)
  \/ \E r \in Calls : ResumeOnRequest(r, "ok")
  \/ \E r \in Calls : ResumeFetch(r, OkJson)
  \/ \E r \in Calls : ResumeOnResponse(r, "ok")
  \/ \E r \in Calls : ResumeParse(r, "ok")

SpecTiming == Init /\ [][NextTiming]_vars

\* Requests under the two coreHooks without analytics, with hooks that may fail
\* and configureLogger between any two steps
InitNoAnalytics == Loaded /\ variant \in {"plain", "basic"}
NextNoAnalytics ==
  \/ \E lg \in LoggerPool : ConfigureLogger(lg)
  \/ \E data \in DataPool, opts \in OptionsPool : Call("get", data, opts)
  \/ \E r \in Calls : ResumeOnRequest(r, "ok")
  \/ \E r \in Calls : ResumeOnRequest(r, "throw")
  \/ \E r \in Calls, out \in FetchOutcomes : PlainResumeFetch(r, out)
  \/ \E r \in Calls : PlainResumeOnResponse(r, "ok")
  \/ \E r \in Calls : PlainResumeOnResponse(r, "throw")
  \/ \E r \in Calls, out \in {"ok", "throw", "unsupported"} : ResumeParse(r, out)
  \/ \E r \in Calls : ResumeOnError(r, "ok")
  \/ \E r \in Calls : ResumeOnError(r, "throw")
  \/ \E data \in DataPool : BasicCall("get", data, EmptyObj)
  \/ \E r \in Calls, out \in FetchOutcomes : BasicResumeFetch(r, out)
  \/ \E r \in Calls, out \in {"ok", "throw"} : BasicResumeParse(r, out)

SpecNoAnalytics == InitNoAnalytics /\ [][NextNoAnalytics]_vars

\* Requests with every verb whose ok responses declare no Content-Type, or
\* application/json, under either strict coreHook, with hooks that may fail
NoTypeOk == [kind |-> "response", response |-> Some(Response(200, None))]
NextNoType ==
  \/ ConfigureLogger(LoggerA)
  \/ \E verb \in Verbs, data \in DataPool : Call(verb, data, EmptyObj)
  \/ \E r \in Calls : ResumeOnRequest(r, "ok")
  \/ \E r \in Calls : ResumeOnRequest(r, "throw")
  \/ \E r \in Calls, out \in {NoTypeOk, OkJson} : ResumeFetch(r, out)
  \/ \E r \in Calls : ResumeOnResponse(r, "ok")
  \/ \E r \in Calls : ResumeOnResponse(r, "throw")
  \/ \E r \in Calls, out \in {NoTypeOk, OkJson} : PlainResumeFetch(r, out)
  \/ \E r \in Calls : PlainResumeOnResponse(r, "ok")
  \/ \E r \in Calls : PlainResumeOnResponse(r, "throw")
  \/ \E r \in Calls, out \in {"ok", "throw", "unsupported"} : ResumeParse(r, out)
  \/ \E r \in Calls : ResumeOnError(r, "ok")
  \/ \E r \in Calls : ResumeOnError(r, "throw")

SpecNoType == InitAnyVariant /\ [][NextNoType]_vars

\* Requests under each of the three coreHooks, with hooks, dispatches and body
\* accessors that end one way or the other, and configureLogger at any time
InitEveryVariant == Loaded /\ variant \in Variants \cup {"basic"}
\* the await at which call r is suspended completes
Resume(r) ==
  \/ \E out \in {"ok", "throw"} : ResumeOnRequest(r, out)
  \/ \E out \in FetchOutcomes : ResumeFetch(r, out)
  \/ \E out \in {"ok", "throw"} : ResumeOnResponse(r, out)
  \/ \E out \in FetchOutcomes : PlainResumeFetch(r, out)
  \/ \E out \in {"ok", "throw"} : PlainResumeOnResponse(r, out)
  \/ \E out \in {"ok", "throw", "unsupported"} : ResumeParse(r, out)
  \/ \E out \in {"ok", "throw"} : ResumeOnError(r, out)
  \/ \E out \in FetchOutcomes : BasicResumeFetch(r, out)
  \/ \E out \in {"ok", "throw"} : BasicResumeParse(r, out)
NextLive ==
  \/ \E lg \in LoggerPool : ConfigureLogger(lg)
  \/ \E data \in DataPool : Call("get", data, EmptyObj)
  \/ \E data \in DataPool : BasicCall("get", data, EmptyObj)
  \/ \E r \in Calls : Resume(r)

\* every await that is pending completes: the hooks and the transport end
SpecLive ==
  InitEveryVariant /\ [][NextLive]_vars /\ \A r \in Calls : WF_vars(Resume(r))

\* Requests whose responses have a status at, inside and outside the edges of
\* the success range, under a global logger whose hooks may fail
StatusPool == {199, 200, 299, 300, 404}
StatusOutcomes ==
  { [kind |-> "response", response |-> Some(Response(st, Some(CtJson)))] : st \in StatusPool }
    \cup { [kind |-> "throw", response |-> None] }
NextStatus ==
  \/ ConfigureLogger(LoggerA)
  \/ \E data \in DataPool : Call("get", data, EmptyObj)
  \/ \E r \in Calls : ResumeOnRequest(r, "ok")
  \/ \E r \in Calls : ResumeOnRequest(r, "throw")
  \/ \E r \in Calls, out \in StatusOutcomes : ResumeFetch(r, out)
  \/ \E r \in Calls : ResumeOnResponse(r, "ok")
  \/ \E r \in Calls : ResumeOnResponse(r, "throw")
  \/ \E r \in Calls : ResumeParse(r, "ok")
  \/ \E r \in Calls : ResumeOnError(r, "ok")
  \/ \E r \in Calls : ResumeOnError(r, "throw")

SpecStatus == Init /\ [][NextStatus]_vars

\* Requests under a global logger, with configureGlobal between any two steps,
\* also while a call waits for its onRequest hook
NextConfigHook ==
  \/ ConfigureLogger(LoggerA)
  \/ \E config \in ConfigPool : ConfigureGlobal(config)
  \/ \E verb \in {"get", "post"}, data \in DataPool :
       Call(verb, data, EmptyObj)
  \/ \E data \in DataPool :
       Call("get", data, [credentials |-> "omit", headers |-> ("Custom-Header" :> "Local")])
  \/ \E r \in Calls : ResumeOnRequest(r, "ok")
  \/ \E r \in Calls : ResumeFetch(r, OkJson)
  \/ \E r \in Calls : ResumeOnResponse(r, "ok")
  \/ \E r \in Calls : ResumeParse(r, "ok")

SpecConfigHook == Init /\ [][NextConfigHook]_vars

\* a method named by the caller's options, and one named by the global config
MethodOptionsPool == {EmptyObj, [method |-> "PATCH"]}
MethodConfig == [method |-> "TRACE"]
NotFound == [kind |-> "response", response |-> Some(Response(404, None))]

\* Requests through each of the seven shortcuts, with and without a method in
\* the caller's options and in the global config
NextVerbs ==
  \/ ConfigureGlobal(MethodConfig)
  \/ \E verb \in Verbs, data \in DataPool, opts \in MethodOptionsPool : Call(verb, data, opts)
  \/ \E r \in Calls : ResumeOnRequest(r, "ok")
  \/ \E r \in Calls, out \in {OkJson, NotFound} : ResumeFetch(r, out)
  \/ \E r \in Calls : ResumeOnResponse(r, "ok")
  \/ \E r \in Calls : ResumeParse(r, "ok")
  \/ \E r \in Calls : ResumeOnError(r, "ok")

SpecVerbs == Init /\ [][NextVerbs]_vars

\* Requests, both setters, resets, and a caller that keeps what getAnalytics
\* returned and may write to it
NextFrame ==
  \/ ConfigureLogger(LoggerA)
  \/ ConfigureGlobal([credentials |-> "include"])
  \/ ResetAnalytics
  \/ GetAnalytics
  \/ \E field \in {"totalRequests", "requestMethods", "errorCodes", "responseTimes"} :
       WriteSnapshot(field)
  \/ \E data \in DataPool : Call("get", data, EmptyObj)
  \/ \E r \in Calls, out \in {"ok", "throw"} : ResumeOnRequest(r, out)
  \/ \E r \in Calls, out \in {OkJson, NotFound} : ResumeFetch(r, out)
  \/ \E r \in Calls, out \in {"ok", "throw"} : ResumeOnResponse(r, out)
  \/ \E r \in Calls : ResumeParse(r, "ok")
  \/ \E r \in Calls, out \in {"ok", "throw"} : ResumeOnError(r, out)

SpecFrame == Init /\ [][NextFrame]_vars

\* ------------------------------------------------------------------ claims
Live == View(analytics, heap)
\* what the dispatch of call r ended with
GotResponse(rq) == rq.fetched # None /\ rq.fetched[1].kind = "response"
GotThrow(rq) == rq.fetched # None /\ rq.fetched[1].kind = "throw"
StatusOf(rq) == rq.fetched[1].response[1].status
ErrKind(rq) == IF rq.err = None THEN "" ELSE rq.err[1].kind

\* C1: in every reachable state, after any interleaving of requests of every
\* outcome and of resets, totalRequests = successfulRequests + failedRequests.
C1_TotalIsSuccessPlusFailure ==
  analytics.totalRequests = analytics.successfulRequests + analytics.failedRequests

\* a decode failure (counted as a success) and a declared failure, both ended
C1_Witness ==
  /\ analytics.totalRequests = 2
  /\ analytics.successfulRequests = 1
  /\ analytics.failedRequests = 1
  /\ \E r \in Calls : ErrKind(req[r]) = "unsupported" /\ req[r].pc = "done"

\* C2: in every reachable state the per-method counts of requestMethods add up
\* to totalRequests.
C2_MethodCountsSumToTotal ==
  SumVals(Live.requestMethods) = analytics.totalRequests

\* two observations of the same verb
C2_Witness ==
  /\ analytics.totalRequests = 2
  /\ \E m \in DOMAIN Live.requestMethods : Live.requestMethods[m] = 2

\* C3: in every reachable state the per-status counts of errorCodes add up to
\* failedRequests.
C3_ErrorCodesSumToFailed ==
  SumVals(Live.errorCodes) = analytics.failedRequests

\* two declared failures of the same status
C3_Witness ==
  /\ analytics.failedRequests = 2
  /\ \E c \in DOMAIN Live.errorCodes : Live.errorCodes[c] = 2

\* the step in which the dispatch of call r returns a response
Delivered(r) ==
  /\ req[r].pc = "fetch"
  /\ req'[r].pc # "fetch"
  /\ GotResponse(req'[r])

\* C4: the step in which the dispatch of a call returns a response (ok or not)
\* raises totalRequests by exactly 1, whatever other calls are in flight, and no
\* other step raises or lowers it except a reset to 0; a call's dispatch returns
\* at most once, so each such call is observed exactly once.
C4_OneObservationPerResponse ==
  [][ /\ \A r \in Calls :
           Delivered(r) => analytics'.totalRequests = analytics.totalRequests + 1
      /\ \A r \in Calls :
           (req[r].fetched # None) => (req'[r].fetched = req[r].fetched)
      /\ (analytics'.totalRequests # analytics.totalRequests)
           => \/ \E r \in Calls : Delivered(r)
              \/ analytics'.totalRequests = 0 ]_vars

\* two calls in flight at once, both observed: the first still awaits its
\* onResponse hook, the second was a declared failure
C4_Witness ==
  /\ req[1].pc = "onResponse"
  /\ GotResponse(req[2]) /\ StatusOf(req[2]) = 404
  /\ analytics.totalRequests = 2

\* C5: no step of a call whose dispatch threw changes any analytics field.
C5_ThrowLeavesAnalytics ==
  [][ \A r \in Calls :
        (req'[r] # req[r] /\ GotThrow(req'[r]))
          => (analytics' = analytics /\ Live' = Live) ]_vars

\* a call whose dispatch threw has run to its end while the analytics hold an
\* observation of another call
C5_Witness ==
  /\ \E r \in Calls : GotThrow(req[r]) /\ req[r].pc = "done"
  /\ analytics.totalRequests = 1
  /\ Live.responseTimes = << 1 >>


\* the places of the events named ev in the trace of a call
Evs(rq, ev) == {i \in 1..Len(rq.trace) : rq.trace[i].ev = ev}
Started(rq) == rq.pc # "idle"
Caught(rq) == rq.err # None
\* the call failed after its onResponse hook was called: in parseResponse or in
\* the hook itself, and under the plain coreHook also at the ok check
FailedAfterOnResponse(rq) ==
  \/ ErrKind(rq) \in {"unsupported", "body"}
  \/ ErrKind(rq) = "hook" /\ rq.err[1].hook = "onResponse"
  \/ ErrKind(rq) = "status" /\ variant = "plain"
\* the dispatch returned a response that reaches the onResponse hook call
ReachedOnResponse(rq) ==
  GotResponse(rq) /\ (variant = "analytics" => rq.fetched[1].response[1].ok)
\* onRequest is called before the dispatch, onResponse and onError after it
HooksAroundDispatch(rq) ==
  /\ \A i \in Evs(rq, "onRequest"), j \in Evs(rq, "fetch") : i < j
  /\ \A i \in Evs(rq, "onResponse") \cup Evs(rq, "onError"), j \in Evs(rq, "fetch") : j < i
  /\ (Started(rq) /\ Has(rq.logger, "onRequest")) => Evs(rq, "onRequest") = {1}
  /\ (rq.pc = "done" /\ Evs(rq, "fetch") # {}
        /\ Has(rq.logger, "onResponse") /\ Has(rq.logger, "onError"))
       => Evs(rq, "onResponse") \cup Evs(rq, "onError") # {}

\* C6 as claimed: onRequest before the dispatch, onResponse or onError after it,
\* and never both onResponse and onError for the same request.
C6_NeverBothHooks ==
  \A r \in Calls :
    /\ HooksAroundDispatch(req[r])
    /\ ~ (Evs(req[r], "onResponse") # {} /\ Evs(req[r], "onError") # {})

\* C6 as amended: onRequest before the dispatch, onResponse or onError after it;
\* onResponse and onError are both called for a request exactly when it fails
\* after its onResponse hook was called, the logger having both: on a decode
\* failure or a failing onResponse hook, and under the plain coreHook, which
\* calls onResponse before the ok check, on a declared failure too.  A rejected
\* dispatch and a failing onRequest hook call onError alone, and so does a
\* declared failure under the analytics coreHook.
C6_BothHooksExactlyOnLateFailure ==
  \A r \in Calls :
    /\ HooksAroundDispatch(req[r])
    /\ (Evs(req[r], "onResponse") # {} /\ Evs(req[r], "onError") # {})
         => (ReachedOnResponse(req[r]) /\ FailedAfterOnResponse(req[r]))
    /\ (FailedAfterOnResponse(req[r])
          /\ Has(req[r].logger, "onResponse") /\ Has(req[r].logger, "onError"))
         => (Evs(req[r], "onResponse") # {} /\ Evs(req[r], "onError") # {})
    /\ (Caught(req[r]) /\ ~ FailedAfterOnResponse(req[r]))
         => Evs(req[r], "onResponse") = {}

\* a call that ended in a decode failure after both hooks were called, in order
C6_Witness ==
  \E r \in Calls :
    /\ req[r].pc = "done"
    /\ ErrKind(req[r]) = "unsupported"
    /\ \E i \in Evs(req[r], "onResponse"), j \in Evs(req[r], "onError") : i < j
    /\ Evs(req[r], "onRequest") = {1}

\* the error reaches onError once, with the url of the call, when the logger has it
ReachesOnErrorOnce(rq) ==
  IF Has(rq.logger, "onError")
  THEN /\ Cardinality(Evs(rq, "onError")) = 1
       /\ \A i \in Evs(rq, "onError") :
            rq.trace[i].err = rq.err[1] /\ rq.trace[i].url = rq.url
  ELSE Evs(rq, "onError") = {}

\* C7 as claimed: every error of a request reaches onError exactly once and the
\* call then rejects with that same error.
C7_RejectsWithSameError ==
  \A r \in Calls :
    (req[r].pc = "done" /\ Caught(req[r]))
      => /\ ReachesOnErrorOnce(req[r])
         /\ req[r].result[1].state = "rejected"
         /\ req[r].result[1].error = req[r].err

\* C7 as amended: every error of a request reaches onError exactly once; the
\* call then rejects, with that same error when the onError hook is absent or
\* ends normally, and with the onError hook's own error when that hook fails.
\* A call no error was caught in resolves and calls no onError.
C7_RejectsWithSameErrorUnlessOnErrorFails ==
  \A r \in Calls :
    /\ (req[r].pc \in {"onError", "done"} /\ Caught(req[r]))
         => ReachesOnErrorOnce(req[r])
    /\ (req[r].pc = "done" /\ Caught(req[r]))
         => /\ req[r].result[1].state = "rejected"
            /\ req[r].result[1].value = None
            /\ req[r].result[1].error =
                 IF "onError" \in req[r].threw THEN Some(HookError("onError"))
                 ELSE req[r].err
    /\ (req[r].pc = "done" /\ ~ Caught(req[r]))
         => /\ req[r].result[1].state = "resolved"
            /\ Evs(req[r], "onError") = {}

\* a failing onResponse hook: its error went through onError and the call
\* rejected with it
C7_Witness ==
  \E r \in Calls :
    /\ req[r].pc = "done"
    /\ req[r].err = Some(HookError("onResponse"))
    /\ Evs(req[r], "onError") # {}
    /\ req[r].result[1].error = req[r].err

\* the hook calls a call with the logger lg makes on its path so far
HooksOf(rq, lg) ==
  /\ \A i \in 1..Len(rq.trace) :
       rq.trace[i].ev \in HookNames
         => Has(lg, rq.trace[i].ev) /\ rq.trace[i].cb = lg[rq.trace[i].ev]
  /\ (Started(rq) /\ Has(lg, "onRequest")) => Evs(rq, "onRequest") # {}
  /\ (ReachedOnResponse(rq) /\ Has(lg, "onResponse")) => Evs(rq, "onResponse") # {}
  /\ (Caught(rq) /\ Has(lg, "onError")) => Evs(rq, "onError") # {}

\* C8: every hook call of a call in flight is made on the logger chosen at call
\* start (the per-request logger, else the global logger of that moment),
\* whatever configureLogger has done since: the callbacks that logger has are
\* the ones called, and a hook it lacks is not called.
C8_LoggerChosenAtCallStart ==
  \A r \in Calls :
    /\ HooksOf(req[r], req[r].logger)
    /\ Has(req[r].options, "logger") => req[r].logger = req[r].options.logger

\* a call without a per-request logger that started under LoggerA, saw the
\* global logger replaced before one of its hook calls, and still called the
\* onError callback of LoggerA
C8_Witness ==
  \E r \in Calls :
    /\ ~ Has(req[r].options, "logger")
    /\ req[r].logger = LoggerA
    /\ globalLogger = LoggerB
    /\ req[r].bypassed
    /\ req[r].pc = "done"
    /\ \E i \in Evs(req[r], "onError") : req[r].trace[i].cb = "A"

\* C9: a call with a per-request logger calls that logger's callbacks only; a
\* hook the per-request logger lacks is not called at all, also when the global
\* logger has it.
C9_PerRequestLoggerSupersedes ==
  \A r \in Calls :
    Has(req[r].options, "logger") => HooksOf(req[r], req[r].options.logger)

\* a call with LoggerB (no onError) has caught an error while the global logger
\* had an onError callback, and ended without any onError call
C9_Witness ==
  \E r \in Calls :
    /\ Has(req[r].options, "logger") /\ req[r].options.logger = LoggerB
    /\ req[r].bypassed
    /\ Caught(req[r])
    /\ req[r].pc = "done"
    /\ Evs(req[r], "onError") = {}
    /\ Evs(req[r], "onRequest") # {}


\* C10 as claimed: what getAnalytics returned is independent of the live
\* counters: as long as the caller leaves it alone it shows the values it had
\* when returned, whatever requests and resets follow, and a write of the
\* caller to any part of it leaves what the live analytics show unchanged.
C10_SnapshotIndependent ==
  [][ /\ (snap.held /\ snap' = snap)
         => View(snap'.obj, heap') = View(snap.obj, heap)
      /\ (snap.held /\ snap'.writes # snap.writes)
         => View(analytics', heap') = View(analytics, heap) ]_vars

\* what a getAnalytics result shows in the zero state
ZeroState == View(ZeroAnalytics, EmptyHeap)

\* C11: resetAnalytics, from any state of the analytics (requests observed,
\* containers written to through an object getAnalytics returned), leaves the
\* zero state on every field, and a getAnalytics call returns an object that
\* shows exactly what the analytics show: after a reset, the zero state.
C11_ResetYieldsZeroState ==
  [][ /\ ResetAnalytics => View(analytics', heap') = ZeroState
      /\ GetAnalytics => /\ snap'.taken = View(analytics, heap)
                         /\ View(snap'.obj, heap') = View(analytics, heap)
                         /\ View(analytics', heap') = View(analytics, heap) ]_vars

\* both calls were observed, then the analytics were reset, then getAnalytics
\* returned an object that shows the zero state
C11_Witness ==
  /\ \A r \in Calls : req[r].pc = "done" /\ GotResponse(req[r])
  /\ snap.held
  /\ snap.taken = ZeroState
  /\ View(snap.obj, heap) = ZeroState
  /\ Live = ZeroState

\* C12 as claimed: configureGlobal merges its argument into the global config
\* with the header maps merged key by key (the headers of the argument laid
\* over the headers already configured), and a top-level key set earlier and
\* not named by the argument stays as it was.
C12_ConfigureGlobalMergesHeaders ==
  [][ \A config \in ConfigPool :
        ConfigureGlobal(config)
          => /\ HeadersOf(globalConfig') = Spread(HeadersOf(globalConfig), HeadersOf(config))
             /\ \A k \in (DOMAIN globalConfig) \ ((DOMAIN config) \cup {"headers"}) :
                  Has(globalConfig', k) /\ globalConfig'[k] = globalConfig[k] ]_vars

\* the step in which call r starts
Starts(r) == req[r].pc = "idle" /\ req'[r].pc # "idle"
\* m is the record gc overlaid by the record o, key by key
Overlays(m, gc, o) ==
  /\ DOMAIN m = (DOMAIN gc) \cup (DOMAIN o)
  /\ \A k \in DOMAIN m : m[k] = IF k \in DOMAIN o THEN o[k] ELSE gc[k]
\* m without its headers
SansHeaders(m) == [k \in (DOMAIN m) \ {"headers"} |-> m[k]]

\* C13: the effective options of a call are the global config of the moment the
\* call starts overlaid by the options coreHook receives, the per-request value
\* winning on every top-level key other than headers; the effective headers are
\* the global headers overlaid key by key by the per-request headers.  They are
\* fixed when the call starts, and they are what the onRequest hook and the
\* dispatch receive.
C13_EffectiveOptions ==
  [][ \A r \in Calls :
        /\ Starts(r)
             => \E data \in DataPool :
                  LET o == FacadeOptions(req'[r].verb, data, req'[r].options)
                      m == req'[r].merged
                  IN /\ Has(m, "headers")
                     /\ Overlays(SansHeaders(m), SansHeaders(globalConfig), SansHeaders(o))
                     /\ Overlays(m.headers, HeadersOf(globalConfig), HeadersOf(o))
        /\ req[r].pc # "idle" => req'[r].merged = req[r].merged
        /\ \A i \in Evs(req'[r], "fetch") \cup Evs(req'[r], "onRequest") :
             req'[r].trace[i].opts = req'[r].merged ]_vars

\* a dispatched call whose per-request options won on credentials and on
\* Custom-Header, while Content-Type came from the global headers alone
C13_Witness ==
  \E r \in Calls :
    /\ Evs(req[r], "fetch") # {}
    /\ req[r].options = [credentials |-> "omit", headers |-> ("Custom-Header" :> "Local")]
    /\ req[r].merged.credentials = "omit"
    /\ req[r].verb = "get"
    /\ req[r].merged.headers = ("Custom-Header" :> "Local" @@ "Content-Type" :> "text/xml")
    /\ globalConfig = [credentials |-> "include", headers |-> HdrCustom]

\* the dispatch of the call returned a response that is not ok
DeclaredFailure(rq) == GotResponse(rq) /\ ~ rq.fetched[1].response[1].ok
\* the message of a declared failure, from the status and status text received
FailureMessage(rq) ==
  << "[Hook] Request failed with status ", rq.fetched[1].response[1].status, ": ",
     rq.fetched[1].response[1].statusText >>
\* the call is past its ok check
PastOkCheck(rq) ==
  /\ rq.pc \in {"onError", "done"}
  /\ ~ (ErrKind(rq) = "hook" /\ rq.err[1].hook = "onResponse")

\* C14 as claimed: a call whose response is a declared failure rejects with the
\* error "[Hook] Request failed with status {status}: {statusText}" of that
\* response, and the onError hook of its logger is called with the url of the
\* call and that error.
C14_DeclaredFailureRejects ==
  \A r \in Calls :
    (req[r].pc = "done" /\ DeclaredFailure(req[r]))
      => /\ req[r].result[1].state = "rejected"
         /\ req[r].result[1].error # None
         /\ req[r].result[1].error[1].kind = "status"
         /\ req[r].result[1].error[1].message = FailureMessage(req[r])
         /\ req[r].err = req[r].result[1].error
         /\ ReachesOnErrorOnce(req[r])

\* C14 as amended: a call whose response is a declared failure and that reaches
\* the ok check raises the error "[Hook] Request failed with status {status}:
\* {statusText}" of that response there, and only such a call raises it; the
\* onError hook of its logger is called once with the url of the call and that
\* error; the call rejects, with that error when the onError hook is absent or
\* ends normally and with the onError hook's own error when that hook fails.
\* Under the plain coreHook a failing onResponse hook, called before the ok
\* check, rejects the call with the hook's error instead.
C14_DeclaredFailureRejectsUnlessHookFails ==
  \A r \in Calls :
    /\ (DeclaredFailure(req[r]) /\ PastOkCheck(req[r]))
         => /\ ErrKind(req[r]) = "status"
            /\ req[r].err[1].message = FailureMessage(req[r])
            /\ ReachesOnErrorOnce(req[r])
    /\ (DeclaredFailure(req[r]) /\ req[r].pc = "done")
         => /\ req[r].result[1].state = "rejected"
            /\ req[r].result[1].error =
                 IF "onError" \in req[r].threw THEN Some(HookError("onError"))
                 ELSE req[r].err
            /\ ("onResponse" \in req[r].threw) => variant = "plain"
    /\ ErrKind(req[r]) = "status" => DeclaredFailure(req[r])

\* a 404 response: onError was called with the error of that status and the
\* call rejected with it
C14_Witness ==
  \E r \in Calls :
    /\ req[r].pc = "done"
    /\ DeclaredFailure(req[r]) /\ StatusOf(req[r]) = 404
    /\ req[r].result[1].error = req[r].err /\ ErrKind(req[r]) = "status"
    /\ req[r].result[1].error[1].message =
         << "[Hook] Request failed with status ", 404, ": ", "Not Found" >>
    /\ \E i \in Evs(req[r], "onError") :
         req[r].trace[i].err = req[r].result[1].error[1] /\ req[r].trace[i].url = req[r].url

\* the dispatch returned an ok response whose Content-Type the decoder does not
\* recognise
UnsupportedOk(rq) ==
  /\ GotResponse(rq)
  /\ rq.fetched[1].response[1].ok
  /\ ~ \E s \in {"application/json", "text/", "application/octet-stream", "application/blob"} :
         Includes(rq.fetched[1].response[1].ctype, s)
UnsupportedMessage(rq) ==
  << "[Hook] Unsupported response content type: ", rq.fetched[1].response[1].ctype[1].text >>

\* C15 as claimed: an ok response whose Content-Type matches none of the
\* recognised types makes the call reject with "[Hook] Unsupported response
\* content type: {type}", and the onError hook of its logger is called for it.
C15_UnsupportedTypeRejects ==
  \A r \in Calls :
    (req[r].pc = "done" /\ UnsupportedOk(req[r]))
      => /\ req[r].result[1].state = "rejected"
         /\ req[r].result[1].error # None
         /\ req[r].result[1].error[1].kind = "unsupported"
         /\ req[r].result[1].error[1].message = UnsupportedMessage(req[r])
         /\ req[r].err = req[r].result[1].error
         /\ ReachesOnErrorOnce(req[r])

\* C15 as amended: a call with such a response never resolves and reads no
\* body.  When its onResponse hook is absent or ends normally the decoder raises
\* "[Hook] Unsupported response content type: {type}", the onError hook of the
\* logger is called once with the url and that error, and the call rejects with
\* that error, or with the onError hook's own error when that hook fails.  When
\* its onResponse hook fails the call rejects with that hook's error, which goes
\* through onError the same way.
C15_UnsupportedTypeRejectsUnlessHookFails ==
  \A r \in Calls :
    /\ (UnsupportedOk(req[r]) /\ PastOkCheck(req[r]))
         => /\ ErrKind(req[r]) = "unsupported"
            /\ req[r].err[1].message = UnsupportedMessage(req[r])
            /\ ReachesOnErrorOnce(req[r])
    /\ (UnsupportedOk(req[r]) /\ req[r].pc \in {"onError", "done"})
         => /\ Caught(req[r])
            /\ ReachesOnErrorOnce(req[r])
            /\ Evs(req[r], "body") = {}
    /\ (UnsupportedOk(req[r]) /\ req[r].pc = "done")
         => /\ req[r].result[1].state = "rejected"
            /\ req[r].result[1].error =
                 IF "onError" \in req[r].threw THEN Some(HookError("onError"))
                 ELSE req[r].err
    /\ ErrKind(req[r]) = "unsupported" => UnsupportedOk(req[r])

\* a 200 response of type unsupported/type: onError was called with the
\* decoder's error and the call rejected with it
C15_Witness ==
  \E r \in Calls :
    /\ req[r].pc = "done"
    /\ UnsupportedOk(req[r])
    /\ req[r].result[1].error = req[r].err /\ ErrKind(req[r]) = "unsupported"
    /\ req[r].result[1].error[1].message =
         << "[Hook] Unsupported response content type: ", "unsupported/type" >>
    /\ \E i \in Evs(req[r], "onError") :
         req[r].trace[i].err = req[r].result[1].error[1] /\ req[r].trace[i].url = req[r].url

\* C16: the step in which the dispatch of a call returns an ok response of an
\* unsupported content type records one successful observation (totalRequests
\* and successfulRequests raised by 1, failedRequests and errorCodes unchanged);
\* no later step of that call changes the analytics, and the call ends rejected
\* with the decoder's error.
C16_DecodeFailureCountsAsSuccess ==
  [][ \A r \in Calls :
        /\ (Delivered(r) /\ UnsupportedOk(req'[r]))
             => /\ analytics'.successfulRequests = analytics.successfulRequests + 1
                /\ analytics'.totalRequests = analytics.totalRequests + 1
                /\ analytics'.failedRequests = analytics.failedRequests
                /\ Live'.errorCodes = Live.errorCodes
        /\ (UnsupportedOk(req[r]) /\ req'[r] # req[r])
             => (analytics' = analytics /\ Live' = Live)
        /\ (UnsupportedOk(req'[r]) /\ req'[r].pc = "done")
             => /\ req'[r].result[1].state = "rejected"
                /\ req'[r].result[1].error = Some(UnsupportedError(Some(CtOther))) ]_vars

\* the only call made so far was rejected by the decoder, and the analytics
\* hold it as a success
C16_Witness ==
  /\ req[1].pc = "done" /\ UnsupportedOk(req[1])
  /\ req[1].result[1].state = "rejected"
  /\ req[2].pc = "idle"
  /\ analytics.totalRequests = 1
  /\ analytics.successfulRequests = 1
  /\ analytics.failedRequests = 0
  /\ Live.errorCodes = EmptyObj

\* the names of the events of a call, in the order they happened
EvNames(rq) == [i \in 1..Len(rq.trace) |-> rq.trace[i].ev]
\* the event named ev when the condition holds, else nothing
Step(cond, ev) == IF cond THEN << ev >> ELSE << >>
\* the steps of a call that went well, for a logger lg
SuccessPath(lg) ==
  Step(Has(lg, "onRequest"), "onRequest") \o << "fetch" >>
    \o Step(Has(lg, "onResponse"), "onResponse") \o << "body" >>

\* C17: a call in which nothing failed (an ok response of a recognised content
\* type, every hook and the body accessor ending normally) has gone through
\* onRequest, the dispatch, onResponse and the decoder in that order, each
\* once, the hooks being those its logger has; it resolves with what the body
\* accessor chosen for the content type returned, and its onError hook is not
\* called.  A call resolves in no other case.
C17_SuccessPathOrder ==
  \A r \in Calls :
    /\ (req[r].pc = "done" /\ ~ Caught(req[r]))
         => /\ EvNames(req[r]) = SuccessPath(req[r].logger)
            /\ GotResponse(req[r]) /\ req[r].fetched[1].response[1].ok
            /\ ~ UnsupportedOk(req[r])
            /\ req[r].threw = {}
            /\ req[r].result[1].state = "resolved"
            /\ req[r].result[1].error = None
            /\ req[r].result[1].value =
                 Some([how |-> "json", body |-> req[r].fetched[1].response[1].body])
    /\ (req[r].pc = "done" /\ req[r].result[1].state = "resolved") => ~ Caught(req[r])

\* a call under LoggerA resolved after onRequest, the dispatch, onResponse and
\* the decoder, in that order
C17_Witness ==
  \E r \in Calls :
    /\ req[r].pc = "done"
    /\ req[r].logger = LoggerA
    /\ req[r].result[1].state = "resolved"
    /\ EvNames(req[r]) = << "onRequest", "fetch", "onResponse", "body" >>

\* the number of network dispatches call rq has made
Dispatches(rq) == Cardinality(Evs(rq, "fetch"))

C19_DispatchAwaitsOnRequest ==
  [][ \A r \in Calls :
        /\ req[r].pc = "onRequest" => Dispatches(req[r]) = 0
        /\ Dispatches(req'[r]) > Dispatches(req[r])
             => /\ req[r].pc = "onRequest"
                /\ req'[r].pc = "fetch"
                /\ "onRequest" \notin req'[r].threw
                /\ Has(req[r].logger, "onRequest") => Evs(req'[r], "onRequest") = {1}
                /\ Evs(req'[r], "fetch") = {Len(req'[r].trace)} ]_vars

\* the onRequest hook of the first call is still pending and nothing of that call
\* was dispatched, while the second call has run to its end, with its own
\* dispatch, and the global logger was replaced
C19_Witness ==
  /\ req[1].pc = "onRequest"
  /\ EvNames(req[1]) = << "onRequest" >>
  /\ ~ Has(req[1].options, "logger")
  /\ globalLogger # req[1].logger
  /\ req[2].pc = "done" /\ Dispatches(req[2]) = 1

\* the options the dispatch of call rq received
Dispatched(rq) == rq.trace[CHOOSE i \in Evs(rq, "fetch") : TRUE].opts
\* the Content-Type the caller named in the headers of its own options
OwnContentType(rq) ==
  IF Has(HeadersOf(rq.options), "Content-Type")
  THEN Some(rq.options.headers["Content-Type"]) ELSE None

\* C20: the headers a post, put or patch call dispatches carry the Content-Type
\* of the caller's own headers when these name one, and application/json
\* otherwise, also when the global headers name another; the body dispatched is
\* the JSON serialisation of the data argument, whatever body the caller's
\* options or the global config carry, and the method is that of the shortcut.
C20_JsonBodyAndContentType ==
  \A r \in Calls :
    (req[r].verb \in BodyVerbs /\ Evs(req[r], "fetch") # {})
      => /\ Has(Dispatched(req[r]).headers, "Content-Type")
         /\ Dispatched(req[r]).headers["Content-Type"] =
              IF OwnContentType(req[r]) # None THEN OwnContentType(req[r])[1]
              ELSE "application/json"
         /\ \E data \in DataPool : Dispatched(req[r]).body = [enc |-> "json", of |-> data]
         /\ Dispatched(req[r]).method =
              CASE req[r].verb = "post" -> "POST"
                [] req[r].verb = "put" -> "PUT"
                [] req[r].verb = "patch" -> "PATCH"

\* under global headers that name Content-Type text/xml, a post without headers
\* of its own was dispatched as application/json, and a put whose options carry
\* Content-Type text/plain and a body of their own was dispatched as text/plain
\* with the serialised data as its body
C20_Witness ==
  /\ Evs(req[1], "fetch") # {} /\ Evs(req[2], "fetch") # {}
  /\ req[1].verb = "post" /\ req[1].options = EmptyObj
  /\ Dispatched(req[1]).headers =
       ("Custom-Header" :> "CustomValue" @@ "Content-Type" :> "application/json")
  /\ req[2].verb = "put" /\ Has(req[2].options, "body") /\ req[2].options.body = "raw"
  /\ Dispatched(req[2]).headers["Content-Type"] = "text/plain"
  /\ Dispatched(req[2]).body = [enc |-> "json", of |-> "d1"]

\* the HTTP verb each shortcut stands for
FixedVerb ==
  [ get |-> "GET", post |-> "POST", put |-> "PUT", del |-> "DELETE",
    patch |-> "PATCH", head |-> "HEAD", options |-> "OPTIONS" ]

\* C21: a call through a shortcut is dispatched with the HTTP verb of that
\* shortcut (get GET, post POST, put PUT, del DELETE, patch PATCH, head HEAD,
\* options OPTIONS), whatever method the caller's options or the global config
\* name; the onRequest hook sees the same method.
C21_FixedVerbPerShortcut ==
  \A r \in Calls :
    /\ Started(req[r])
         => (Has(req[r].merged, "method") /\ req[r].merged.method = FixedVerb[req[r].verb])
    /\ Evs(req[r], "fetch") # {} => Dispatched(req[r]).method = FixedVerb[req[r].verb]

\* a del call whose options name PATCH went out as DELETE and a head call went
\* out as HEAD, while the global config names TRACE
C21_Witness ==
  /\ Has(globalConfig, "method") /\ globalConfig.method = "TRACE"
  /\ req[1].verb = "del" /\ req[1].options = [method |-> "PATCH"]
  /\ Evs(req[1], "fetch") # {} /\ Dispatched(req[1]).method = "DELETE"
  /\ req[2].verb = "head" /\ req[2].options = EmptyObj
  /\ Evs(req[2], "fetch") # {} /\ Dispatched(req[2]).method = "HEAD"

\* the recognised substrings in the order of their precedence, and the body
\* accessor of each
Precedence == << "application/json", "text/", "application/octet-stream", "application/blob" >>
Accessor == << "json", "text", "arrayBuffer", "blob" >>
\* the places in Precedence of the substrings the Content-Type of the response
\* of call rq includes
Matches(rq) ==
  {i \in 1..Len(Precedence) : Includes(rq.fetched[1].response[1].ctype, Precedence[i])}
Earliest(rq) == CHOOSE i \in Matches(rq) : \A j \in Matches(rq) : i <= j
\* the decoder of call rq has chosen its branch
Decoding(rq) ==
  /\ GotResponse(rq) /\ rq.fetched[1].response[1].ok
  /\ rq.pc \in {"parse", "onError", "done"}

\* C22: the decoder reads the body of a response with the accessor of the
\* earliest of application/json, text/, application/octet-stream and
\* application/blob that the Content-Type includes, with that accessor only and
\* once; a response whose Content-Type includes none of them, or that has no
\* Content-Type, has no body read.  A call that resolves resolves with what
\* that accessor returned.
C22_DecoderPrecedence ==
  \A r \in Calls :
    /\ Cardinality(Evs(req[r], "body")) <= 1
    /\ Evs(req[r], "body") # {} => Decoding(req[r])
    /\ Decoding(req[r])
         => IF Matches(req[r]) = {}
            THEN Evs(req[r], "body") = {}
            ELSE /\ Cardinality(Evs(req[r], "body")) = 1
                 /\ \A i \in Evs(req[r], "body") :
                      req[r].trace[i].how = Accessor[Earliest(req[r])]
    /\ (req[r].pc = "done" /\ req[r].result[1].state = "resolved")
         => /\ Matches(req[r]) # {}
            /\ req[r].result[1].value[1].how = Accessor[Earliest(req[r])]

\* a response whose Content-Type includes application/json and text/ was read
\* as JSON, and one that includes application/octet-stream and application/blob
\* was read as an array buffer
C22_Witness ==
  /\ req[1].pc = "done" /\ req[2].pc = "done"
  /\ GotResponse(req[1]) /\ req[1].fetched[1].response[1].ctype = Some(CtJsonText)
  /\ req[1].result[1].state = "resolved" /\ req[1].result[1].value[1].how = "json"
  /\ GotResponse(req[2]) /\ req[2].fetched[1].response[1].ctype = Some(CtBinaryBlob)
  /\ req[2].result[1].state = "resolved" /\ req[2].result[1].value[1].how = "arrayBuffer"

\* C23: configureLogger replaces the global logger, it merges nothing: the
\* global logger is always exactly the object last configured, and a call
\* without a per-request logger calls the hooks of the global logger of the
\* moment it starts and no other; a hook an earlier global logger had and the
\* current one lacks is not called.
C23_ConfigureLoggerReplaces ==
  [][ /\ globalLogger' \in LoggerPool \cup {EmptyObj}
      /\ \A lg \in LoggerPool : ConfigureLogger(lg) => globalLogger' = lg
      /\ \A r \in Calls :
           /\ (Starts(r) /\ ~ Has(req'[r].options, "logger"))
                => req'[r].logger = globalLogger
           /\ ~ Has(req'[r].options, "logger") => HooksOf(req'[r], req'[r].logger) ]_vars

\* the first call started under LoggerA and the second, later, under LoggerB,
\* neither with a logger of its own; the second caught an error and ended
\* without an onError call, its other hooks being those of LoggerB
C23_Witness ==
  /\ ~ Has(req[1].options, "logger") /\ req[1].logger = LoggerA
  /\ ~ Has(req[2].options, "logger") /\ req[2].logger = LoggerB
  /\ req[2].pc = "done" /\ Caught(req[2])
  /\ Evs(req[2], "onError") = {}
  /\ \E i \in Evs(req[2], "onRequest") : req[2].trace[i].cb = "B"

\* the step in which call r hands its request to the transport
Dispatch(r) == req[r].pc = "onRequest" /\ req'[r].pc = "fetch"

\* C24 as claimed: the timing start of a call is the reading of the clock at the
\* moment of its dispatch, after its onRequest hook has ended, so the time
\* recorded for the call is the time from its dispatch to its response and
\* leaves out the time spent in the hook.
C24_TimingStartsAtDispatch ==
  [][ \A r \in Calls :
        (Dispatch(r) /\ Has(req[r].logger, "onRequest")) => req'[r].startTime = now ]_vars

\* the steps of a call whose response was a declared failure, for a logger lg,
\* under the coreHook with analytics
FailurePath(lg) ==
  Step(Has(lg, "onRequest"), "onRequest") \o << "fetch" >>
    \o Step(Has(lg, "onError"), "onError")
\* the step in which the dispatch of call r returns a response that is not ok
FailsAtOkCheck(r) ==
  req[r].pc = "fetch" /\ req'[r].pc # "fetch" /\ DeclaredFailure(req'[r])

\* C25: under the coreHook with analytics, a call whose response is a declared
\* failure never calls onResponse.  When the response arrives one observation
\* is recorded, as a failure under the status of the response, and the onError
\* hook of the call's logger, if it has one, is called once, with the failure
\* error; nothing is recorded while that hook runs or after it, and the call
\* then rejects.
C25_FailurePathWithAnalytics ==
  [][ variant = "analytics" =>
        \A r \in Calls :
          /\ FailsAtOkCheck(r)
               => /\ analytics'.totalRequests = analytics.totalRequests + 1
                  /\ analytics'.failedRequests = analytics.failedRequests + 1
                  /\ GetOr0(Live.errorCodes', StatusOf(req'[r]))
                       = GetOr0(Live.errorCodes, StatusOf(req'[r])) + 1
                  /\ req'[r].pc = "onError"
                  /\ ErrKind(req'[r]) = "status"
                  /\ EvNames(req'[r]) = FailurePath(req'[r].logger)
                  /\ \A i \in Evs(req'[r], "onError") :
                       req'[r].trace[i].err = StatusError(req'[r].fetched[1].response[1])
          /\ (DeclaredFailure(req[r]) /\ req[r].pc = "onError" /\ req'[r] # req[r])
               => /\ req'[r].pc = "done"
                  /\ req'[r].result[1].state = "rejected"
                  /\ req'[r].trace = req[r].trace
                  /\ analytics' = analytics /\ heap' = heap
          /\ DeclaredFailure(req'[r]) => Evs(req'[r], "onResponse") = {} ]_vars

\* under the coreHook with analytics a call under LoggerA got a 404 response:
\* its only hook calls were onRequest and onError, the failure was counted
\* under 404 and the call rejected
C25_Witness ==
  /\ variant = "analytics"
  /\ \E r \in Calls :
       /\ req[r].pc = "done"
       /\ req[r].logger = LoggerA
       /\ DeclaredFailure(req[r]) /\ StatusOf(req[r]) = 404
       /\ EvNames(req[r]) = << "onRequest", "fetch", "onError" >>
       /\ req[r].result[1].state = "rejected"
       /\ analytics.failedRequests >= 1
       /\ GetOr0(Live.errorCodes, 404) >= 1

\* the logger whose hooks a step of call r calls: the module variable as it is
\* now under the coreHook that reads it at each hook, else the one resolved at
\* the start of the call
HookedAt(r) == IF variant = "basic" THEN globalLogger ELSE req[r].logger
\* the step in which the dispatch of call r returns a response
Receives(r) == req[r].pc = "fetch" /\ req'[r].pc # "fetch" /\ GotResponse(req'[r])
\* the step in which call r enters its catch block
Catches(r) == ~ Caught(req[r]) /\ Caught(req'[r])
\* the response of a call, as its dispatch returned it
Raw(rq) == rq.fetched[1].response[1]

\* what C26 says of the onResponse hook, which holds: under a coreHook without
\* analytics the step that receives a response, ok or not, calls the onResponse
\* hook of the logger, if it has one, once and with the url of the call and the
\* response as received; no other step calls it, and when the call enters its
\* catch block the onError hook of the logger, if it has one, is called once,
\* after onResponse.
OnResponseBeforeOkCheck ==
  variant \in {"plain", "basic"} =>
        \A r \in Calls :
          /\ Receives(r)
               => /\ Cardinality(Evs(req'[r], "onResponse"))
                       = IF Has(HookedAt(r), "onResponse") THEN 1 ELSE 0
                  /\ \A i \in Evs(req'[r], "onResponse") :
                       /\ req'[r].trace[i].response = Raw(req'[r])
                       /\ req'[r].trace[i].url = req'[r].url
          /\ ~ Receives(r) => Evs(req'[r], "onResponse") = Evs(req[r], "onResponse")
          /\ Catches(r)
               => Cardinality(Evs(req'[r], "onError"))
                    = IF Has(HookedAt(r), "onError") THEN 1 ELSE 0
          /\ ~ Catches(r) => Evs(req'[r], "onError") = Evs(req[r], "onError")
          /\ \A i \in Evs(req'[r], "onResponse"), j \in Evs(req'[r], "onError") : i < j

\* C26 as claimed: under a coreHook without analytics a call whose response is a
\* declared failure calls onResponse with the response as received, before the
\* ok check, then calls onError with the declared-failure error of that
\* response, and then rejects.
C26_FailurePathWithoutAnalytics ==
  [][ /\ OnResponseBeforeOkCheck
      /\ variant \in {"plain", "basic"} =>
           \A r \in Calls :
             DeclaredFailure(req'[r])
               => /\ \A j \in Evs(req'[r], "onError") :
                       req'[r].trace[j].err = StatusError(Raw(req'[r]))
                  /\ req'[r].pc = "done" => req'[r].result[1].state = "rejected" ]_vars

\* C26 as amended: under a coreHook without analytics a call whose response is a
\* declared failure calls onResponse with the response as received, before the
\* ok check.  When that hook ends normally the ok check raises the
\* declared-failure error of the response and onError is called with it; when
\* the hook throws, the ok check is not reached and onError is called with the
\* hook's error.  The call rejects in both cases, after the onError call.
C26_FailurePathUnlessOnResponseFails ==
  [][ /\ OnResponseBeforeOkCheck
      /\ variant \in {"plain", "basic"} =>
           \A r \in Calls :
             DeclaredFailure(req'[r])
               => /\ \A j \in Evs(req'[r], "onError") :
                       req'[r].trace[j].err =
                         IF "onResponse" \in req'[r].threw THEN HookError("onResponse")
                         ELSE StatusError(Raw(req'[r]))
                  /\ req'[r].pc = "done" => req'[r].result[1].state = "rejected" ]_vars

\* under the coreHook that does not await its hooks, with LoggerA configured, a
\* call got a 404 response: onResponse was called with it, then onError with
\* the error of that status, and the call rejected with that error
C26_Witness ==
  /\ variant = "basic"
  /\ \E r \in Calls :
       /\ req[r].pc = "done"
       /\ DeclaredFailure(req[r]) /\ StatusOf(req[r]) = 404
       /\ EvNames(req[r]) = << "onRequest", "fetch", "onResponse", "onError" >>
       /\ req[r].trace[3].response = Raw(req[r])
       /\ req[r].trace[4].err = StatusError(Raw(req[r]))
       /\ req[r].threw = {}
       /\ req[r].result[1] = [state |-> "rejected", value |-> None, error |-> req[r].err]

\* the dispatch returned an ok response without a Content-Type header
NoTypeReceived(rq) == GotResponse(rq) /\ Raw(rq).ok /\ Raw(rq).ctype = None
\* the decoder's message for it: the template prints null
NoTypeMessage == << "[Hook] Unsupported response content type: ", "null" >>

\* C27 as claimed: under a strict coreHook a call, made with any verb, whose ok
\* response declares no Content-Type rejects with the unsupported-content-type
\* error, and the onError hook of its logger is called with that error.
C27_NoContentTypeRejects ==
  \A r \in Calls :
    (req[r].pc = "done" /\ NoTypeReceived(req[r]))
      => /\ req[r].result[1].state = "rejected"
         /\ req[r].result[1].error # None
         /\ req[r].result[1].error[1].kind = "unsupported"
         /\ req[r].result[1].error[1].message = NoTypeMessage
         /\ req[r].err = req[r].result[1].error
         /\ ReachesOnErrorOnce(req[r])

\* C27 as amended: such a call, made with any verb, never resolves and reads no
\* body.  When its onResponse hook is absent or ends normally the decoder raises
\* "[Hook] Unsupported response content type: null", the onError hook of the
\* logger is called once with the url and that error, and the call rejects with
\* that error, or with the onError hook's own error when that hook fails.  When
\* its onResponse hook fails the call rejects with that hook's error, which goes
\* through onError the same way.
C27_NoContentTypeRejectsUnlessHookFails ==
  \A r \in Calls :
    /\ (NoTypeReceived(req[r]) /\ req[r].pc \in {"onError", "done"})
         => /\ Caught(req[r])
            /\ req[r].err = IF "onResponse" \in req[r].threw
                            THEN Some(HookError("onResponse"))
                            ELSE Some([kind |-> "unsupported", message |-> NoTypeMessage])
            /\ ReachesOnErrorOnce(req[r])
            /\ Evs(req[r], "body") = {}
    /\ (NoTypeReceived(req[r]) /\ req[r].pc = "done")
         => /\ req[r].result[1].state = "rejected"
            /\ req[r].result[1].error =
                 IF "onError" \in req[r].threw THEN Some(HookError("onError"))
                 ELSE req[r].err
    /\ NoTypeReceived(req[r]) => req[r].pc # "parse" \/ ParseStrategy(Raw(req[r])) = "unsupported"

\* a del call and a head call under LoggerA each got an ok response without
\* Content-Type: onError was called with the decoder's error, which names the
\* type null, and each call rejected with it
C27_Witness ==
  /\ req[1].verb = "del" /\ req[2].verb = "head"
  /\ \A r \in Calls :
       /\ req[r].pc = "done"
       /\ req[r].logger = LoggerA
       /\ NoTypeReceived(req[r])
       /\ req[r].result[1] =
            [ state |-> "rejected", value |-> None,
              error |-> Some([kind |-> "unsupported", message |-> NoTypeMessage]) ]
       /\ EvNames(req[r]) = << "onRequest", "fetch", "onResponse", "onError" >>
       /\ req[r].trace[4].err = [kind |-> "unsupported", message |-> NoTypeMessage]

\* C28: every call that has started ends, resolved or rejected, provided each
\* await it is suspended at completes (the hook, the dispatch or the body
\* accessor returns or throws); a call has a result exactly when it has ended,
\* and once it has one no step changes the result or anything else of the call.
C28_EveryCallSettlesOnce ==
  /\ \A r \in Calls :
       Started(req[r])
         ~> (req[r].pc = "done" /\ req[r].result # None
               /\ req[r].result[1].state \in {"resolved", "rejected"})
  /\ [][ \A r \in Calls :
           /\ (req[r].result # None) <=> (req[r].pc = "done")
           /\ req[r].result # None => req'[r] = req[r] ]_vars

\* both calls have ended, one resolved and one rejected
C28_Witness ==
  /\ \A r \in Calls : req[r].pc = "done" /\ req[r].result # None
  /\ \E r \in Calls : req[r].result[1].state = "resolved"
  /\ \E r \in Calls : req[r].result[1].state = "rejected"

\* C29: averageResponseTime is the arithmetic mean of the response times kept
\* in responseTimes, one for each observation since the last reset: their sum
\* divided by their number.  It is 0 when there has been no observation since
\* the last reset, or none at all.
C29_AverageIsMeanOfRetained ==
  LET times == Live.responseTimes
      avg == Live.averageResponseTime
  IN /\ Len(times) = Live.totalRequests
     /\ avg.den > 0
     /\ IF times = << >>
        THEN avg.num = 0
        ELSE avg.num * Len(times) = SumSeq(times) * avg.den

\* two observations, of response times 0 and 1: the average is 1/2
C29_Witness ==
  /\ Live.responseTimes \in { << 0, 1 >>, << 1, 0 >> }
  /\ Live.averageResponseTime = [num |-> 1, den |-> 2]
  /\ Live.totalRequests = 2

\* the step in which the dispatch of call r ends
Returns(r) == req[r].pc = "fetch" /\ req'[r].pc # "fetch"
\* 1 when the condition holds, else 0
Count(cond) == IF cond THEN 1 ELSE 0
\* what the analytics count, and what coreHook raises, agree on every response:
\* the step in which a dispatch ends adds one to failedRequests and to
\* errorCodes under the status exactly when the response is not ok, which is
\* exactly when the declared-failure error is raised, and one to
\* successfulRequests exactly when the response is ok, which is exactly when
\* the call goes on to its onResponse hook; no other step counts or raises
CountedAsClassified ==
  /\ \A r \in Calls :
       Returns(r)
         => LET failed == GotResponse(req'[r]) /\ ~ Raw(req'[r]).ok
                passed == GotResponse(req'[r]) /\ Raw(req'[r]).ok
            IN /\ analytics'.failedRequests = analytics.failedRequests + Count(failed)
               /\ analytics'.successfulRequests = analytics.successfulRequests + Count(passed)
               /\ \A st \in StatusPool :
                    GetOr0(Live.errorCodes', st)
                      = GetOr0(Live.errorCodes, st) + Count(failed /\ st = StatusOf(req'[r]))
               /\ failed <=> ErrKind(req'[r]) = "status"
               /\ failed => req'[r].err = Some(StatusError(Raw(req'[r])))
               /\ passed <=> req'[r].pc = "onResponse"
  /\ (\A r \in Calls : ~ Returns(r))
       => /\ analytics' = analytics /\ Live' = Live
          /\ \A r \in Calls : ErrKind(req'[r]) = "status" => req'[r].err = req[r].err

\* C30 as claimed: a request is counted in failedRequests, and in errorCodes
\* under its status, exactly when its caller receives the declared-failure
\* error, and in successfulRequests exactly when its response passed the ok
\* check.
C30_CountedAsRaised ==
  [][ /\ CountedAsClassified
      /\ \A r \in Calls :
           req'[r].pc = "done"
             => (DeclaredFailure(req'[r])
                   <=> (/\ req'[r].result[1].error # None
                        /\ req'[r].result[1].error[1].kind = "status")) ]_vars

\* C30 as amended: a request is counted in failedRequests, and in errorCodes
\* under its status, exactly when the ok check raises the declared-failure
\* error for it, and in successfulRequests exactly when its response passed the
\* ok check.  The caller receives the declared-failure error of a request
\* counted as failed when the onError hook is absent or ends normally, and the
\* onError hook's own error when that hook fails; it receives the
\* declared-failure error of no other request.
C30_CountedAsRaisedUnlessOnErrorFails ==
  [][ /\ CountedAsClassified
      /\ \A r \in Calls :
           req'[r].pc = "done"
             => /\ DeclaredFailure(req'[r])
                     => req'[r].result[1].error =
                          IF "onError" \in req'[r].threw THEN Some(HookError("onError"))
                          ELSE Some(StatusError(Raw(req'[r])))
                /\ (/\ req'[r].result[1].error # None
                    /\ req'[r].result[1].error[1].kind = "status")
                     => DeclaredFailure(req'[r]) ]_vars

\* a call that got status 300 and a call that got status 299 have ended: the
\* first was counted as a failure under 300 and rejected with the error of that
\* status, the second was counted as a success and resolved
C30_Witness ==
  /\ \A r \in Calls : req[r].pc = "done"
  /\ \A r \in Calls : GotResponse(req[r])
  /\ StatusOf(req[1]) = 300 /\ StatusOf(req[2]) = 299
  /\ req[1].result[1].error = Some(StatusError(Response(300, Some(CtJson))))
  /\ req[2].result[1].state = "resolved"
  /\ analytics.failedRequests = 1 /\ analytics.successfulRequests = 1
  /\ Live.errorCodes = (300 :> 1)

\* the options the onRequest hook of call rq received
Hooked(rq) == rq.trace[CHOOSE i \in Evs(rq, "onRequest") : TRUE].opts

\* C31: the effective options of a call are those merged from the global config
\* of the moment the call starts.  No step changes them afterwards, a
\* configureGlobal made while the call waits for its onRequest hook included:
\* the dispatch receives the options merged at the start, with their headers,
\* and the onRequest hook, when the logger has one, has received the same.
C31_OptionsFixedAtCallStart ==
  [][ \A r \in Calls :
        /\ Starts(r)
             => /\ Overlays(req'[r].merged.headers, HeadersOf(globalConfig),
                            HeadersOf(FacadeOptions(req'[r].verb, "d1", req'[r].options)))
                /\ \A k \in (DOMAIN globalConfig) \ {"headers"} : Has(req'[r].merged, k)
        /\ Started(req[r]) => req'[r].merged = req[r].merged
        /\ Dispatch(r)
             => /\ Dispatched(req'[r]) = req[r].merged
                /\ Evs(req[r], "onRequest") # {} => Dispatched(req'[r]) = Hooked(req[r])
        /\ (Started(req[r]) /\ \E config \in ConfigPool : ConfigureGlobal(config))
             => req'[r].trace = req[r].trace ]_vars

\* a get call started under the Authorization header alone; configureGlobal
\* replaced the global headers while it waited for its onRequest hook, and it
\* was dispatched with Authorization, as its onRequest hook had seen it
C31_Witness ==
  /\ req[1].verb = "get" /\ req[1].options = EmptyObj
  /\ Evs(req[1], "fetch") # {} /\ Evs(req[1], "onRequest") # {}
  /\ Dispatched(req[1]).headers = HdrAuth
  /\ Hooked(req[1]) = Dispatched(req[1])
  /\ HeadersOf(globalConfig) = HdrCustom
  /\ Has(globalConfig, "credentials") /\ ~ Has(Dispatched(req[1]), "credentials")

\* the onRequest hook of the call failed
OnRequestFailed(rq) == "onRequest" \in rq.threw
\* what holds of a call whose onRequest hook failed, whatever its onError hook
\* does: it makes no dispatch and receives no response, its onResponse hook is
\* not called, the hook's error reaches onError once, and no step of the call,
\* from the failure on, changes the analytics
AfterOnRequestFails ==
  \A r \in Calls :
    OnRequestFailed(req'[r])
      => /\ Dispatches(req'[r]) = 0 /\ req'[r].fetched = None
         /\ Evs(req'[r], "onResponse") = {} /\ Evs(req'[r], "body") = {}
         /\ req'[r].err = Some(HookError("onRequest"))
         /\ ReachesOnErrorOnce(req'[r])
         /\ req'[r].pc \in {"onError", "done"}
         /\ req'[r] # req[r] => (analytics' = analytics /\ heap' = heap)

\* C32 as claimed: when the onRequest hook of a call fails no dispatch is made,
\* onResponse is not called, onError is called once with the hook's error, the
\* call rejects with that error, and the analytics are unchanged.
C32_OnRequestFailureRejects ==
  [][ /\ AfterOnRequestFails
      /\ \A r \in Calls :
           (OnRequestFailed(req'[r]) /\ req'[r].pc = "done")
             => req'[r].result[1] =
                  [ state |-> "rejected", value |-> None,
                    error |-> Some(HookError("onRequest")) ] ]_vars

\* C32 as amended: the same, except that the call rejects with the onRequest
\* hook's error when the onError hook is absent or ends normally, and with the
\* onError hook's own error when that hook fails too.
C32_OnRequestFailureRejectsUnlessOnErrorFails ==
  [][ /\ AfterOnRequestFails
      /\ \A r \in Calls :
           (OnRequestFailed(req'[r]) /\ req'[r].pc = "done")
             => req'[r].result[1] =
                  [ state |-> "rejected", value |-> None,
                    error |-> IF "onError" \in req'[r].threw
                              THEN Some(HookError("onError"))
                              ELSE Some(HookError("onRequest")) ] ]_vars

\* with analytics, a call under LoggerA whose onRequest hook failed has ended:
\* its only hook calls were onRequest and onError, it rejected with the hook's
\* error and nothing was counted, while the other call was observed
C32_Witness ==
  /\ variant = "analytics"
  /\ req[1].pc = "done" /\ req[1].logger = LoggerA
  /\ OnRequestFailed(req[1])
  /\ EvNames(req[1]) = << "onRequest", "onError" >>
  /\ req[1].trace[2].err = HookError("onRequest")
  /\ req[1].result[1].error = Some(HookError("onRequest"))
  /\ req[2].pc = "done" /\ GotResponse(req[2])
  /\ analytics.totalRequests = 1

\* the methods a call can be dispatched or counted under
MethodNames == {FixedVerb[v] : v \in Verbs} \cup {"TRACE", ""}

\* C33: the step in which the dispatch of a call returns a response, ok or not,
\* adds one to requestMethods under the method the call was dispatched with,
\* and changes the count of no other method, also when the global config or
\* the caller's options name a method of their own; no other step changes
\* requestMethods.
C33_CountedUnderDispatchedMethod ==
  [][ /\ \A r \in Calls :
           (Returns(r) /\ GotResponse(req'[r]))
             => \A m \in MethodNames :
                  GetOr0(Live.requestMethods', m)
                    = GetOr0(Live.requestMethods, m) + Count(m = Dispatched(req[r]).method)
      /\ DOMAIN Live.requestMethods' \subseteq MethodNames
      /\ (\A r \in Calls : ~ Returns(r)) => Live.requestMethods' = Live.requestMethods ]_vars

\* under a global config that names TRACE, a del call whose options name PATCH
\* got a 404 response and an options call got a 200 response: one observation
\* is counted under DELETE and one under OPTIONS
C33_Witness ==
  /\ Has(globalConfig, "method") /\ globalConfig.method = "TRACE"
  /\ req[1].verb = "del" /\ req[1].options = [method |-> "PATCH"]
  /\ GotResponse(req[1]) /\ StatusOf(req[1]) = 404
  /\ Dispatched(req[1]).method = "DELETE"
  /\ req[2].verb = "options" /\ GotResponse(req[2]) /\ StatusOf(req[2]) = 200
  /\ Live.requestMethods = ("DELETE" :> 1 @@ "OPTIONS" :> 1)

\* the Content-Type of the global headers
GlobalContentType ==
  IF Has(HeadersOf(globalConfig), "Content-Type")
  THEN Some(globalConfig.headers["Content-Type"]) ELSE None
\* the Content-Type a call is to go out with: that of the caller's own headers;
\* failing that, application/json for a shortcut that sends a body; failing
\* that, that of the global headers
ExpectedContentType(rq, global) ==
  IF OwnContentType(rq) # None THEN OwnContentType(rq)
  ELSE IF rq.verb \in BodyVerbs THEN Some("application/json")
  ELSE global
\* the Content-Type of a header map
ContentTypeOf(headers) ==
  IF Has(headers, "Content-Type") THEN Some(headers["Content-Type"]) ELSE None

\* C34: the Content-Type of the effective headers of a post, put or patch call
\* is that of the caller's own headers when these name one, and application/json
\* otherwise; the Content-Type of the global headers never shows in them, while
\* it does show in those of a get call whose own headers name none.  The
\* dispatch receives these headers.
C34_ContentTypePrecedence ==
  [][ \A r \in Calls :
        /\ Starts(r)
             => ContentTypeOf(req'[r].merged.headers)
                  = ExpectedContentType(req'[r], GlobalContentType)
        /\ Dispatch(r) => Dispatched(req'[r]).headers = req[r].merged.headers ]_vars

\* under global headers that name Content-Type text/xml, a patch call without
\* headers of its own was dispatched as application/json, with the other global
\* header, and a get call without headers of its own as text/xml
C34_Witness ==
  /\ GlobalContentType = Some("text/xml")
  /\ \A r \in Calls : Evs(req[r], "fetch") # {} /\ req[r].options = EmptyObj
  /\ req[1].verb = "patch" /\ req[2].verb = "get"
  /\ Dispatched(req[1]).headers =
       ("Custom-Header" :> "CustomValue" @@ "Content-Type" :> "application/json")
  /\ Dispatched(req[2]).headers = HdrCustom

\* the step is a call of one of the two setters
SetsLogger == \E lg \in LoggerPool : ConfigureLogger(lg)
SetsConfig == \E config \in ConfigPool : ConfigureGlobal(config)
\* the step records an observation: the dispatch of a call returns a response
Observes == \E r \in Calls : Returns(r) /\ GotResponse(req'[r])

\* C35 as claimed: the global config changes only in a configureGlobal step and
\* the global logger only in a configureLogger step, so no step of a request
\* changes either; neither setter changes what the analytics show; and what the
\* analytics show changes only in a step that records an observation or in a
\* resetAnalytics step.
C35_FrameEffects ==
  [][ /\ globalConfig' # globalConfig => SetsConfig
      /\ globalLogger' # globalLogger => SetsLogger
      /\ (SetsConfig \/ SetsLogger) => Live' = Live
      /\ Live' # Live => (Observes \/ ResetAnalytics) ]_vars

\* the part of C35 about requests and setters, which holds: no step of a
\* request changes the global config or the global logger, and no setter step
\* changes what the analytics show
C35_RequestsAndSettersKeepToTheirState ==
  [][ /\ globalConfig' # globalConfig => SetsConfig
      /\ globalLogger' # globalLogger => SetsLogger
      /\ (SetsConfig \/ SetsLogger) => Live' = Live ]_vars

====
